---- MODULE Spec2Model ----
(***************************************************************************)
(* A model of the two entry points of terraform-prompt-template:           *)
(*   gemini_generator.py  main()  (JSON + Markdown outputs)                *)
(*   main.py              main()  (Markdown output, optional output_dir)   *)
(* together with get_available_model, configure_gemini_api,                *)
(* generate_content, MainContentGenerator.generate, ProjectPrompt and      *)
(* OutputFileWriter.                                                       *)
(*                                                                         *)
(* Conventions                                                             *)
(*   - a Python str that the code only passes around is a TLA+ string;     *)
(*   - a text that the code assembles (f-strings, Markdown) is a sequence  *)
(*     of tokens, literal words of the source kept as their own tokens;    *)
(*   - a model identifier is a sequence of tokens: its prefixes            *)
(*     ("google-gla:", "models/") followed by the bare name;               *)
(*   - a file-system path is the sequence of its components, so that       *)
(*     "out/output.md" is <<"out", "output.md">>, "output.md" is           *)
(*     <<"output.md">> and the empty string is << >>;                      *)
(*   - a dict / pydantic object is a function from field names to values;  *)
(*   - a command line is a function from the flags given to their values.  *)
(***************************************************************************)
EXTENDS Integers, Sequences, FiniteSets, TLC

VARIABLES
    prog,       \* which entry point runs: "gemini_generator" or "main"
    argv,       \* the command line: flags given |-> value
    environ,    \* os.environ, restricted to GEMINI_API_KEY
    pc,         \* position of the run
    gam,        \* the current / last call of get_available_model
    gamCalls,   \* number of calls of get_available_model in this run
    probes,     \* every model.generate_content("Test") probe of the run, in order
    requests,   \* number of content_agent.run_sync requests issued
    result,     \* gemini_generator: dict returned by generate_content
                \* main: ProjectOutput held by ProjectPrompt
    builder,    \* how the request builder ended: "none", "returned", "raised"
    genFailed,  \* TRUE when a step inside the request builder raised
    genError,   \* the exception the request builder met (NoExc when none)
    exc,        \* the exception a top-level handler is about to handle
    dirs,       \* directories that exist
    files,      \* files written by the run: path |-> content
    stdout,     \* JSON objects printed on stdout
    exitCode,   \* -1 while running, else the process exit code
    fsenv,      \* what the file system allows: template readable, blocked directories
    submitted,  \* the sampling configuration of every request sent to the provider
    writes,     \* every write OutputFileWriter attempted: writer, path, ok
    fetch,      \* one call of fetch_github_template: arguments, response, outcome
    agentRun,   \* what creating and running the agent did: kind, output, metadata
    promptInit  \* main: how ProjectPrompt(...) ended and what the instance holds

vars == <<prog, argv, environ, pc, gam, gamCalls, probes, requests, result,
          builder, genFailed, genError, exc, dirs, files, stdout, exitCode,
          fsenv, submitted, writes, fetch, agentRun, promptInit>>

----------------------------------------------------------------------------
(* Python values *)

None == "<None>"

Running == -1

\* d.get(key, default)
Get(d, key, default) == IF key \in DOMAIN d THEN d[key] ELSE default

\* hasattr(obj, name) for an object modelled as a function of its attributes
HasAttr(obj, name) == name \in DOMAIN obj

\* Python truthiness of a str (None and the empty string are falsy)
TruthyStr(v) == v \notin {None, ""}

\* Python truthiness of a path argument (None is modelled as the empty path)
TruthyPath(p) == Len(p) > 0

\* typed Python values: a str is the sequence of its tokens, a list the
\* sequence of its items
Str(toks) == [type |-> "str", v |-> toks]

List(items) == [type |-> "list", v |-> items]

PyNone == [type |-> "NoneType", v |-> << >>]

\* truthiness of a typed value: None, "" and [] are falsy
TruthyVal(x) == x.type # "NoneType" /\ x.v # << >>

\* substring test `phrase in text` on token sequences
Contains(text, phrase) ==
    \E i \in 1..(Len(text) - Len(phrase) + 1) :
        SubSeq(text, i, i + Len(phrase) - 1) = phrase

EmptyDict == [k \in {} |-> PyNone]

\* json.dumps(v): a str holding the JSON text of v
JsonDumps(v) == [type |-> "str", json |-> TRUE, v |-> v]

\* json.loads(s) succeeds exactly on a JSON text
JsonLoadsOk(s) == s.type = "str" /\ "json" \in DOMAIN s /\ s.json

JsonLoads(s) == s.v

\* exceptions
Exc(type, msg) == [type |-> type, msg |-> msg]

NoExc == [type |-> "none", msg |-> << >>]

\* the tokens of an exception class name ("ValueError" holds "Error")
TypeTokens(t) ==
    CASE t = "ValueError"        -> <<"Value", "Error">>
      [] t = "RuntimeError"      -> <<"Runtime", "Error">>
      [] t = "AttributeError"    -> <<"Attribute", "Error">>
      [] t = "FileNotFoundError" -> <<"FileNotFound", "Error">>
      [] OTHER                   -> <<t>>

\* traceback.format_exc() while handling e
StackTrace(e) ==
    <<"Traceback (most recent call last):">> \o TypeTokens(e.type) \o <<": ">> \o e.msg

----------------------------------------------------------------------------
(* os.path on component sequences *)

\* os.path.dirname(p)
Dirname(p) == IF Len(p) = 0 THEN << >> ELSE SubSeq(p, 1, Len(p) - 1)

\* os.path.basename(p)
Basename(p) == IF Len(p) = 0 THEN << >> ELSE <<p[Len(p)]>>

\* os.path.join(a, b) for a relative b
Join(a, b) == a \o b

\* the current working directory, as os.path.abspath prepends it
Cwd == <<"/", "work">>

RECURSIVE Collapse(_, _)
\* os.path.normpath on an absolute path: ".." steps back, never above "/"
Collapse(done, rest) ==
    IF Len(rest) = 0 THEN done
    ELSE IF Head(rest) = ".."
         THEN Collapse(IF Len(done) > 1 THEN SubSeq(done, 1, Len(done) - 1) ELSE done,
                       Tail(rest))
         ELSE Collapse(Append(done, Head(rest)), Tail(rest))

\* os.path.abspath(p): join with the working directory, then normalise
Abspath(p) ==
    Collapse(<< >>, IF Len(p) > 0 /\ p[1] = "/" THEN p ELSE Cwd \o p)

\* every ancestor directory of d, d included
Ancestors(d) == { SubSeq(d, 1, n) : n \in 1..Len(d) }

\* os.makedirs(d, exist_ok=True): raises FileNotFoundError for the empty
\* path, and OSError when a directory on the way cannot be created
MakedirsOk(d) ==
    /\ Len(d) > 0
    /\ Ancestors(Abspath(d)) \cap fsenv.blocked = {}

\* the directories after a successful os.makedirs(d, exist_ok=True)
MakedirsDirs(ds, d) == ds \cup Ancestors(Abspath(d))

\* open(p, 'w'): needs a file name that is not a directory, and an
\* existing parent directory
OpenOk(ds, p) ==
    /\ Len(p) > 0
    /\ Abspath(p) \notin ds
    /\ Abspath(Dirname(p)) \in ds

\* open(p, 'w') ... write(content): replaces whatever the file held
WriteFile(fs, p, content) ==
    [q \in (DOMAIN fs) \cup {p} |-> IF q = p THEN content ELSE fs[q]]

NoFiles == [q \in {} |-> << >>]

----------------------------------------------------------------------------
(* The provider *)

\* GEMINI_API_KEY as the process finds it
ApiKey == Get(environ, "GEMINI_API_KEY", None)

\* Outcomes of one provider call: with an invalid key every call raises,
\* otherwise a call succeeds or raises (model retired, quota, network).
CallOutcomes == IF ApiKey = "INVALID_KEY_FOR_TESTING" THEN {FALSE} ELSE BOOLEAN

----------------------------------------------------------------------------
(* get_available_model *)

\* requested_model.split(':', 1)[1] when it starts with 'google-gla:'
StripGoogleGla(m) ==
    IF Len(m) > 0 /\ m[1] = "google-gla:" THEN Tail(m) ELSE m

\* requested_model[7:] when it starts with 'models/'
StripModels(m) ==
    IF Len(m) > 0 /\ m[1] = "models/" THEN Tail(m) ELSE m

\* mutant: the second clean-up written as `elif`
CleanModelName_Elif(m) ==
    IF Len(m) > 0 /\ m[1] = "google-gla:" THEN Tail(m) ELSE StripModels(m)

\* the two clean-up steps at the head of get_available_model
CleanModelName(m) == StripModels(StripGoogleGla(m))

candidate_models ==
    << <<"gemini-2.5-pro-preview-05-06">>,
       <<"gemini-2.5-flash-preview-04-17">>,
       <<"gemini-2.0-pro">>,
       <<"gemini-2.0-flash">>,
       <<"gemini-2.0-flash-lite">>,
       <<"gemini-1.5-pro">>,
       <<"gemini-1.5-flash">>,
       <<"gemini-1.5-flash-8b">>,
       <<"gemini-1.0-pro">>,
       <<"gemini-pro">> >>

\* the last-resort return value
LegacyModel == <<"gemini-pro">>

\* default of the parameter requested_model
DefaultRequestedModel == <<"gemini-1.5-pro">>

NoModel == << >>

\* entry of get_available_model(requested), called by `caller`
GamStart(requested, caller) ==
    [ requested |-> requested,
      model     |-> CleanModelName(requested),
      idx       |-> 0,
      caller    |-> caller,
      log       |-> << >>,
      ret       |-> NoModel,
      done      |-> FALSE,
      raised    |-> FALSE ]

\* the try block around the probe of the requested model
AfterRequestedProbe(g, ok) ==
    LET logged == Append(g.log, [model |-> g.model, ok |-> ok, from |-> "requested"])
    IN  IF ok
        THEN [g EXCEPT !.log = logged, !.ret = g.model, !.done = TRUE]
        ELSE [g EXCEPT !.log = logged, !.idx = 1]

\* mutant: a successful candidate does not end the loop
AfterCandidateProbe_NoReturn(g, ok) ==
    LET c      == candidate_models[g.idx]
        logged == Append(g.log, [model |-> c, ok |-> ok, from |-> "candidate"])
    IN  IF g.idx < Len(candidate_models)
        THEN [g EXCEPT !.log = logged, !.idx = g.idx + 1]
        ELSE [g EXCEPT !.log = logged, !.ret = LegacyModel, !.done = TRUE]

\* mutant: the failure of the last candidate is not caught
AfterCandidateProbe_NoCatch(g, ok) ==
    LET c      == candidate_models[g.idx]
        logged == Append(g.log, [model |-> c, ok |-> ok, from |-> "candidate"])
    IN  IF ok
        THEN [g EXCEPT !.log = logged, !.ret = c, !.done = TRUE]
        ELSE IF g.idx < Len(candidate_models)
             THEN [g EXCEPT !.log = logged, !.idx = g.idx + 1]
             ELSE [g EXCEPT !.log = logged, !.done = TRUE, !.raised = TRUE]

\* one iteration of `for candidate in candidate_models`, and the fall
\* through to the last resort after the final candidate
AfterCandidateProbe(g, ok) ==
    LET c      == candidate_models[g.idx]
        logged == Append(g.log, [model |-> c, ok |-> ok, from |-> "candidate"])
    IN  IF ok
        THEN [g EXCEPT !.log = logged, !.ret = c, !.done = TRUE]
        ELSE IF g.idx < Len(candidate_models)
             THEN [g EXCEPT !.log = logged, !.idx = g.idx + 1]
             ELSE [g EXCEPT !.log = logged, !.ret = LegacyModel, !.done = TRUE]

\* a call that has not started
GamIdle ==
    [ requested |-> NoModel, model |-> NoModel, idx |-> 0, caller |-> "none",
      log |-> << >>, ret |-> NoModel, done |-> FALSE, raised |-> FALSE ]

----------------------------------------------------------------------------
(* The request to the provider *)

\* The structured output of a successful run (output_type=ProjectOutput)
SampleOutput ==
    [ readme_content       |-> Str(<<"# Widget">>),
      best_practices       |-> List(<<"Use tests">>),
      suggested_extensions |-> List(<< >>),
      documentation_source |-> List(<< >>),
      copilot_instructions |-> Str(<<"Prefer small functions">>),
      project_type         |-> Str(<<"CLI">>),
      programming_language |-> Str(<<"Go">>) ]

\* An attribute of the grounding metadata: None, a list, an object that is
\* not iterable, or one that raises when it is iterated
Attr(type, items) == [type |-> type, v |-> items]

\* A grounding chunk: web is "missing" (no attribute), "none", "no_uri"
\* (web.uri is None) or "uri"; title "" stands for None
Chunk(web, uri, title) == [web |-> web, uri |-> uri, title |-> title]

\* The metadata of a result: kind is
\*   absent           result has no candidate attribute
\*   candidate_none   result.candidate is None
\*   metadata_none    candidate.grounding_metadata is None
\*   access_raises    reading the candidate raises
\*   present          grounding_metadata is there, with queries and chunks
Meta(kind, queries, chunks) == [kind |-> kind, queries |-> queries, chunks |-> chunks]

\* a result without a candidate
NoMeta == Meta("absent", Attr("NoneType", << >>), Attr("NoneType", << >>))

\* What creating the agent and running it can do:
\*   agent_raise  Agent(...) / GenerativeModel(...) raises
\*   run_raise    run_sync raises
\*   run_none     run_sync returns None
\*   ok           run_sync returns a result with an output
AgentRuns ==
    { [kind |-> "agent_raise", output |-> EmptyDict, meta |-> NoMeta],
      [kind |-> "run_raise",   output |-> EmptyDict, meta |-> NoMeta] }
    \cup
    ( IF TRUE \in CallOutcomes
      THEN { [kind |-> "run_none", output |-> EmptyDict,    meta |-> NoMeta],
             [kind |-> "ok",       output |-> SampleOutput, meta |-> NoMeta] }
      ELSE {} )

\* the agent has not been run
NoRun == [kind |-> "none", output |-> EmptyDict, meta |-> NoMeta]

\* ProjectPrompt has not been constructed
NoInit == [ended |-> "none", initialization_success |-> FALSE,
           project_output_data |-> EmptyDict, exc |-> NoExc]

\* whether the run sends a request to the provider
IssuesRequest(run) == run.kind # "agent_raise"

\* the exception generate_content's outer handler receives
GenerateContentError(run) ==
    CASE run.kind = "resolve_raise" ->
            Exc("Exception", <<"model probe failed">>)
      [] run.kind = "agent_raise" ->
            Exc("UserError", <<"Unknown model">>)
      [] run.kind = "run_raise" ->
            Exc("ValueError", <<"Failed to generate content: ", "API key not valid">>)
      [] run.kind = "run_none" ->
            Exc("ValueError", <<"Failed to generate content: ", "Agent returned None result">>)
      [] OTHER -> NoExc

ListFields == {"documentation_source", "best_practices", "suggested_extensions"}

MainContentFields ==
    {"readme_content", "best_practices", "suggested_extensions",
     "documentation_source", "copilot_instructions"}

\* one iteration of the field loop of generate_content
ExtractField(output, f) ==
    IF HasAttr(output, f) /\ output[f].type # "NoneType"
    THEN IF f \in ListFields
         THEN IF output[f].type = "list" THEN output[f] ELSE List(<<output[f].v>>)
         ELSE Str(output[f].v)
    ELSE IF f = "readme_content" THEN Str(<< >>) ELSE List(<< >>)

\* main_content of generate_content
MainContent(output) == [f \in MainContentFields |-> ExtractField(output, f)]

\* project_type / programming_language with their "Unknown" default
ExtractLabel(output, f) ==
    IF HasAttr(output, f) /\ output[f].type # "NoneType"
    THEN Str(output[f].v)
    ELSE Str(<<"Unknown">>)

\* search_queries after the extraction block: list(...) of an iterable,
\* [str(...)] of anything else, [] when the conversion raised
SearchQueries(meta) ==
    IF meta.kind # "present" \/ meta.queries.type \in {"NoneType", "raises"}
    THEN << >>
    ELSE IF meta.queries.type = "list" THEN meta.queries.v
    ELSE <<"<object>">>

\* the chunks the for loop walks: the list, or [chunks] when not iterable
ChunksIterable(meta) ==
    IF meta.chunks.type = "list" THEN meta.chunks.v
    ELSE <<Chunk("missing", "", "")>>

RECURSIVE SourcesOf(_)
\* the loop over the chunks: one {uri, title} per chunk with web.uri
SourcesOf(chunks) ==
    IF Len(chunks) = 0 THEN << >>
    ELSE ( IF Head(chunks).web = "uri"
           THEN << [ uri   |-> Head(chunks).uri,
                     title |-> IF Head(chunks).title # "" THEN Head(chunks).title
                               ELSE "Unknown" ] >>
           ELSE << >> )
         \o SourcesOf(Tail(chunks))

\* the body of the extraction block: what it collects, and whether an
\* exception leaves it (reading the candidate, iterating the chunks)
GroundingBody(meta) ==
    IF meta.kind = "access_raises"
    THEN [raised |-> TRUE, sources |-> << >>, queries |-> << >>]
    ELSE IF meta.kind # "present" \/ meta.chunks.type = "NoneType"
    THEN [raised |-> FALSE, sources |-> << >>, queries |-> SearchQueries(meta)]
    ELSE IF meta.chunks.type = "raises"
    THEN [raised |-> TRUE, sources |-> << >>, queries |-> SearchQueries(meta)]
    ELSE [raised |-> FALSE, sources |-> SourcesOf(ChunksIterable(meta)),
          queries |-> SearchQueries(meta)]

\* mutant: the extraction block has no handlers
GroundingExtraction_NoCatch(meta) == GroundingBody(meta)

\* the extraction block with its handlers: a warning is logged and what was
\* collected so far is kept
GroundingExtraction(meta) == [GroundingBody(meta) EXCEPT !.raised = FALSE]

\* main_content with the grounding entries added when there are sources
WithGrounding(content, g) ==
    IF Len(g.sources) > 0
    THEN [ grounding_sources |-> List(g.sources),
           search_queries    |-> List(g.queries) ] @@ content
    ELSE content

\* str(bool(grounding_sources)).lower()
UsedSearchGrounding(g) ==
    IF Len(g.sources) > 0 THEN Str(<<"true">>) ELSE Str(<<"false">>)

\* the dictionary generate_content returns when nothing raised
GenerateContentSuccess(output, meta) ==
    [ main                  |-> JsonDumps(WithGrounding(MainContent(output),
                                                        GroundingExtraction(meta))),
      project_type          |-> ExtractLabel(output, "project_type"),
      programming_language  |-> ExtractLabel(output, "programming_language"),
      used_search_grounding |-> UsedSearchGrounding(GroundingExtraction(meta)) ]

\* the dictionary generate_content's outer handler returns
GenerateContentFailure(e) ==
    [ error                |-> Str(e.msg),
      stack_trace          |-> Str(StackTrace(e)),
      main                 |-> JsonDumps(EmptyDict),
      project_type         |-> Str(<<"Unknown">>),
      programming_language |-> Str(<<"Unknown">>) ]

\* the exception of the metadata object, were it to leave the extraction
\* block
GroundingError == Exc("RuntimeError", <<"grounding metadata unavailable">>)

\* mutant: the outer handler of generate_content re-raises
GenerateContent_Reraise(run) ==
    IF run.kind = "ok"
    THEN IF GroundingExtraction(run.meta).raised
         THEN [ended |-> "raised", value |-> GroundingError]
         ELSE [ended |-> "returned", value |-> GenerateContentSuccess(run.output, run.meta)]
    ELSE [ended |-> "raised", value |-> GenerateContentError(run)]

\* generate_content as a whole: how it ends and what it hands back; an
\* exception anywhere in its body ends in the outer handler
GenerateContent(run) ==
    IF run.kind = "ok"
    THEN IF GroundingExtraction(run.meta).raised
         THEN [ended |-> "returned", value |-> GenerateContentFailure(GroundingError)]
         ELSE [ended |-> "returned", value |-> GenerateContentSuccess(run.output, run.meta)]
    ELSE [ended |-> "returned", value |-> GenerateContentFailure(GenerateContentError(run))]

----------------------------------------------------------------------------
(* Rendering *)

RECURSIVE Bullets(_)
\* the "- item" lines of one list section
Bullets(items) ==
    IF Len(items) = 0 THEN << >>
    ELSE <<"- ", Head(items)>> \o Bullets(Tail(items))

\* mutant: list sections are treated as the instructions block is, and
\* left out when empty
convert_json_to_markdown_SkipEmpty(d) ==
    LET SectionIfAny(heading, items) ==
            IF Len(items) = 0 THEN << >> ELSE <<heading>> \o Bullets(items)
    IN
    Get(d, "readme_content", Str(<<"No content available">>)).v
    \o SectionIfAny("## Best Practices", Get(d, "best_practices", List(<< >>)).v)
    \o SectionIfAny("## Recommended VS Code Extensions",
                    Get(d, "suggested_extensions", List(<< >>)).v)
    \o SectionIfAny("## Documentation Sources", Get(d, "documentation_source", List(<< >>)).v)
    \o ( IF TruthyVal(Get(d, "copilot_instructions", PyNone))
         THEN <<"## GitHub Copilot Instructions">> \o d["copilot_instructions"].v
         ELSE << >> )

\* convert_json_to_markdown(json_data)
convert_json_to_markdown(d) ==
    Get(d, "readme_content", Str(<<"No content available">>)).v
    \o <<"## Best Practices">>
    \o Bullets(Get(d, "best_practices", List(<< >>)).v)
    \o <<"## Recommended VS Code Extensions">>
    \o Bullets(Get(d, "suggested_extensions", List(<< >>)).v)
    \o <<"## Documentation Sources">>
    \o Bullets(Get(d, "documentation_source", List(<< >>)).v)
    \o ( IF TruthyVal(Get(d, "copilot_instructions", PyNone))
         THEN <<"## GitHub Copilot Instructions">> \o d["copilot_instructions"].v
         ELSE << >> )

\* json_for_md of gemini_generator.main: what the Markdown is rendered from
JsonForMd(res) ==
    IF "main" \in DOMAIN res /\ res["main"].type # "str"
    THEN res["main"].v
    ELSE IF "readme_content" \in DOMAIN res
    THEN res
    ELSE IF Get(res, "main", PyNone).type = "str"
    THEN IF JsonLoadsOk(res["main"])
         THEN JsonLoads(res["main"])
         ELSE [ readme_content |->
                    Str(<<"# ", "Error", " in Content Generation",
                          "Unable to parse content properly.">>),
                error |-> Get(res, "error", Str(<<"Unknown error">>)) ]
    ELSE [ readme_content       |-> Str(<<"# Generated Content">>),
           project_type         |-> Get(res, "project_type", Str(<<"Unknown">>)),
           programming_language |-> Get(res, "programming_language", Str(<<"Unknown">>)) ]

\* the error documents of the top-level handler of gemini_generator.main
UnhandledErrorJson(e) ==
    [ error |-> Str(e.msg), stack_trace |-> Str(StackTrace(e)) ]

UnhandledErrorMarkdown(e) ==
    <<"# ", "Error", ": Unhandled Exception">> \o e.msg
    \o <<"## Stack Trace">> \o StackTrace(e)

\* the error documents of the 'Failed to establish connection' branch
ConnectionErrorMsg ==
    <<"Failed to establish connection with Gemini API. Check your API key and network connection.">>

ConnectionErrorJson ==
    [ error_message        |-> Str(ConnectionErrorMsg),
      stack_trace          |-> Str(<<"NoneType: None">>),
      readme_content       |-> Str(<<"# ", "Error", ": Failed to Generate Content">>
                                   \o ConnectionErrorMsg),
      best_practices       |-> List(<< >>),
      suggested_extensions |-> List(<< >>),
      documentation_source |-> List(<< >>),
      project_type         |-> Str(<<"Unknown">>),
      programming_language |-> Str(<<"Unknown">>) ]

ConnectionErrorMarkdown ==
    <<"# ", "Error", ": Failed to Generate Content">> \o ConnectionErrorMsg

----------------------------------------------------------------------------
(* main.py: ProjectOutput, MainContentGenerator, OutputFileWriter *)

\* the fields models.ProjectOutput declares
ProjectOutputFields ==
    {"readme_content", "best_practices", "suggested_extensions",
     "documentation_source", "copilot_instructions", "project_type",
     "programming_language"}

\* ProjectOutput(**kwargs): pydantic keeps the declared fields and ignores
\* every other keyword
ProjectOutput(kwargs) ==
    [f \in (DOMAIN kwargs) \cap ProjectOutputFields |-> kwargs[f]]

\* the exception MainContentGenerator.generate catches
MainGenerateError(run) ==
    CASE run.kind = "agent_raise" ->
            Exc("RuntimeError", <<"Failed to create Gemini model. ", "Error", ": ", "Unknown model">>)
      [] run.kind = "run_raise" ->
            Exc("Exception", <<"API key not valid">>)
      [] OTHER -> NoExc

\* the keyword arguments of the ProjectOutput built in generate's handler
MainErrorKwargs(e) ==
    [ readme_content       |-> Str(<<"# ", "Error", "in", "Main", "Content", "Generation",
                                     "Error", ": ">> \o e.msg \o StackTrace(e)),
      best_practices       |-> List(<< >>),
      suggested_extensions |-> List(<< >>),
      documentation_source |-> List(<< >>),
      copilot_instructions |-> Str(<< >>),
      project_type         |-> Str(<<"Unknown">>),
      programming_language |-> Str(<<"Unknown">>),
      error                |-> Str(e.msg),
      stack_trace          |-> Str(StackTrace(e)) ]

\* MainContentGenerator.generate as a whole
MainGenerate(run) ==
    IF run.kind = "ok"
    THEN [ended |-> "returned", value |-> ProjectOutput(run.output)]
    ELSE IF run.kind = "run_none"
    THEN [ended |-> "returned", value |-> EmptyDict]   \* None: no attribute at all
    ELSE [ended |-> "returned", value |-> ProjectOutput(MainErrorKwargs(MainGenerateError(run)))]

\* the target of OutputFileWriter.write_markdown_output
write_markdown_output_path(a) ==
    IF HasAttr(a, "output_dir") /\ TruthyPath(a.output_dir)
    THEN Join(a.output_dir, Basename(a.markdown_output))
    ELSE a.markdown_output

\* mutant: the error writer ignores output_dir
write_error_markdown_path_NoOutputDir(a) == a.markdown_output

\* mutant: the error writer keeps the directories of markdown_output under
\* output_dir
write_error_markdown_path_KeepDirs(a) ==
    IF HasAttr(a, "output_dir") /\ TruthyPath(a.output_dir)
    THEN Join(a.output_dir, a.markdown_output)
    ELSE a.markdown_output

\* the target of OutputFileWriter.write_error_markdown
write_error_markdown_path(a) ==
    IF HasAttr(a, "output_dir") /\ TruthyPath(a.output_dir)
    THEN Join(a.output_dir, Basename(a.markdown_output))
    ELSE a.markdown_output

\* error_content of write_error_markdown
ErrorContent(msg, trace) ==
    <<"# ", "Error", " During Generation">> \o msg
    \o (IF Len(trace) > 0 THEN <<"## Stack Trace">> \o trace ELSE << >>)

\* os.makedirs(os.path.dirname(path), exist_ok=True) then open(path, 'w'):
\* the state of the file system afterwards, and whether anything raised
MakedirsAndWrite(ds, fs, path, content) ==
    IF ~MakedirsOk(Dirname(path))
    THEN [ok |-> FALSE, dirs |-> ds, files |-> fs]
    ELSE LET ds2 == MakedirsDirs(ds, Dirname(path))
         IN  IF OpenOk(ds2, path)
             THEN [ok |-> TRUE,  dirs |-> ds2, files |-> WriteFile(fs, path, content)]
             ELSE [ok |-> FALSE, dirs |-> ds2, files |-> fs]

\* OutputFileWriter.write_markdown_output(project_output)
write_markdown_output(ds, fs, a, doc) ==
    MakedirsAndWrite(ds, fs, write_markdown_output_path(a), doc["readme_content"].v)

\* OutputFileWriter.write_error_markdown(error_msg, stack_trace)
write_error_markdown(ds, fs, a, msg, trace) ==
    MakedirsAndWrite(ds, fs, write_error_markdown_path(a), ErrorContent(msg, trace))

\* the keyword arguments of the ProjectOutput built in ProjectPrompt.__init__'s
\* handler
InitErrorKwargs(e) ==
    [ readme_content       |-> Str(<<"# ", "Error", "ProjectPrompt initialization failed: ">>
                                   \o e.msg \o StackTrace(e)),
      best_practices       |-> List(<< >>),
      suggested_extensions |-> List(<< >>),
      documentation_source |-> List(<< >>),
      copilot_instructions |-> Str(<< >>),
      project_type         |-> Str(<<"Error">>),
      programming_language |-> Str(<<"Error">>),
      error                |-> Str(<<"ProjectPrompt initialization failed: ">> \o e.msg),
      stack_trace          |-> Str(StackTrace(e)) ]

\* the check of ProjectPrompt._generate_all_content on the generated
\* document: the exception it raises, NoExc when it passes
GeneratedContentCheck(doc) ==
    IF ~HasAttr(doc, "error")
    THEN Exc("AttributeError", <<"'ProjectOutput' object has no attribute 'error'">>)
    ELSE IF TruthyVal(doc["error"])
    THEN Exc("RuntimeError", <<"Main content generation failed. Details: ">> \o doc["error"].v)
    ELSE IF Contains(doc["readme_content"].v,
                     <<"Error", "in", "Main", "Content", "Generation">>)
    THEN Exc("RuntimeError", <<"Main content generation failed. Details: ",
                               "See readme content for details">>)
    ELSE NoExc

----------------------------------------------------------------------------
(* Command lines *)

\* the sampling flags both parsers declare
SamplingFlags == {"temperature", "top_p", "top_k", "max_output_tokens"}

\* the flags for search grounding and placeholders, declared by both parsers
ContentFlags == {"enable_search_grounding", "placeholder_format", "placeholder_vars"}

\* the flags each argparse parser knows, among those modelled
ParserFlags(p) ==
    IF p = "gemini_generator"
    THEN {"project_prompt", "repo_org", "project_name", "gemini_model",
          "json_output", "markdown_output", "create_with_placeholders"}
         \cup SamplingFlags \cup ContentFlags
    ELSE {"project_prompt", "repo_org", "project_name", "gemini_model",
          "markdown_output", "output_dir"} \cup SamplingFlags \cup ContentFlags

\* the flags declared required=True
RequiredFlags(p) ==
    IF p = "gemini_generator"
    THEN {"project_prompt", "repo_org", "project_name", "json_output", "markdown_output"}
    ELSE {"project_prompt", "repo_org", "project_name", "markdown_output"}

\* 'project_name,repo_org,project_type,programming_language', the default
\* of --placeholder_vars, as names and commas
DefaultPlaceholderVars ==
    <<"project_name", ",", "repo_org", ",", "project_type", ",", "programming_language">>

\* the defaults of the optional flags (None is the empty path for
\* output_dir, and no entry at all for the sampling flags of main.py);
\* temperature and top_p are counted in hundredths
Defaults(p) ==
    IF p = "gemini_generator"
    THEN [ gemini_model |-> <<"gemini-1.5-pro-latest">>,
           temperature |-> 20, top_p |-> 95, top_k |-> 40,
           max_output_tokens |-> 16384,
           create_with_placeholders |-> "false",
           enable_search_grounding |-> "true",
           placeholder_format |-> "${%s}",
           placeholder_vars |-> DefaultPlaceholderVars ]
    ELSE [ gemini_model |-> <<"gemini-1.5-pro-latest">>, output_dir |-> << >>,
           enable_search_grounding |-> "true",
           placeholder_format |-> "${%s}",
           placeholder_vars |-> DefaultPlaceholderVars ]

\* parser.parse_args() succeeds: no unknown flag, every required flag given
ParseOk == /\ DOMAIN argv \subseteq ParserFlags(prog)
           /\ RequiredFlags(prog) \subseteq DOMAIN argv

\* the namespace parse_args returns
Args == argv @@ Defaults(prog)

\* the three parameters gemini_generator.main checks for emptiness
CheckedParams == <<"project_prompt", "repo_org", "project_name">>

\* the names collected in `missing`
MissingParams == SelectSeq(CheckedParams, LAMBDA k : ~TruthyStr(Args[k]))

----------------------------------------------------------------------------
(* fetch_github_template *)

\* the exception classes met in fetch_github_template and their base classes
ExcBases(t) ==
    CASE t = "ConnectionError"        -> {"RequestException", "Exception"}
      [] t = "HTTPError"              -> {"RequestException", "Exception"}
      [] t = "requests.JSONDecodeError" -> {"RequestException", "ValueError", "Exception"}
      [] t = "RequestException"       -> {"Exception"}
      [] t = "binascii.Error"         -> {"ValueError", "Exception"}
      [] t = "UnicodeDecodeError"     -> {"ValueError", "Exception"}
      [] t = "ValueError"             -> {"Exception"}
      [] t = "Exception"              -> {}
      [] OTHER                        -> {"Exception"}      \* TypeError, AttributeError

\* isinstance(e, cls), as an except clause tests it
IsInstance(e, cls) == e.type = cls \/ cls \in ExcBases(e.type)

\* a JSON object
Dict(v) == [type |-> "dict", v |-> v]

\* the pieces of a base64 payload as the API sends it: encoded text,
\* line breaks, and a piece with broken padding
B64(t) == [k |-> "b64", t |-> t]

Newline == [k |-> "nl", t |-> ""]

BadPadding == [k |-> "badpad", t |-> ""]

\* a piece whose bytes are not UTF-8
InvalidUtf8 == B64("<invalid utf-8>")

\* content_data["content"].replace('\n', '')
StripNewlines(pieces) == SelectSeq(pieces, LAMBDA x : x.k # "nl")

RECURSIVE Quote(_)
\* urllib.parse.quote(path, safe=''): every "/" between the components of
\* the path becomes "%2F"
Quote(comps) ==
    IF Len(comps) <= 1 THEN comps
    ELSE <<Head(comps), "%2F">> \o Quote(Tail(comps))

\* api_url: base (with or without trailing slash), repository, quoted path
\* and the ref parameter when ref is not empty
ApiUrl(call) ==
    (IF call.api_url_base[Len(call.api_url_base)] = "/"
     THEN call.api_url_base \o <<"repos/">>
     ELSE call.api_url_base \o <<"/repos/">>)
    \o <<call.repo, "/contents/">> \o Quote(call.path.v)
    \o (IF call.ref # "" THEN <<"?ref=", call.ref>> ELSE << >>)

\* headers of the request: the token goes in when GITHUB_TOKEN is set
Headers ==
    IF TruthyStr(Get(environ, "GITHUB_TOKEN", None))
    THEN [ Accept |-> "application/vnd.github.v3+json",
           Authorization |-> <<"Bearer ", environ["GITHUB_TOKEN"]>> ]
    ELSE [ Accept |-> "application/vnd.github.v3+json" ]

\* the try block of fetch_github_template for one response of the server:
\* the text it returns, or the exception raised inside it
FetchBody(call, resp) ==
    IF call.path.type = "NoneType"
    THEN [ended |-> "raised", exc |-> Exc("TypeError", <<"quote_from_bytes() expected bytes">>)]
    ELSE IF resp.kind = "transport_error"
    THEN [ended |-> "raised", exc |-> Exc("ConnectionError", <<"Connection refused">>)]
    ELSE IF resp.kind = "http_error"
    THEN [ended |-> "raised", exc |-> Exc("HTTPError", <<"404 Client Error">>)]
    ELSE IF resp.kind = "bad_json"
    THEN [ended |-> "raised", exc |-> Exc("requests.JSONDecodeError", <<"Expecting value">>)]
    ELSE LET data == resp.data
         IN  IF data.type = "list"
             THEN [ended |-> "raised",
                   exc |-> Exc("ValueError", <<"Path '">> \o call.path.v \o <<"' refers to a directory, not a file">>)]
             ELSE IF data.type # "dict"
             THEN [ended |-> "raised", exc |-> Exc("TypeError", <<"argument is not iterable">>)]
             ELSE IF "content" \notin DOMAIN data.v
             THEN [ended |-> "raised",
                   exc |-> Exc("ValueError", <<"No content found in the response for ">> \o call.path.v)]
             ELSE IF data.v["content"].type # "str"
             THEN [ended |-> "raised", exc |-> Exc("AttributeError", <<"object has no attribute 'replace'">>)]
             ELSE LET raw == StripNewlines(data.v["content"].v)
                  IN  IF \E i \in DOMAIN raw : raw[i].k = "badpad"
                      THEN [ended |-> "raised", exc |-> Exc("binascii.Error", <<"Incorrect padding">>)]
                      ELSE IF \E i \in DOMAIN raw : raw[i] = InvalidUtf8
                      THEN [ended |-> "raised",
                            exc |-> Exc("UnicodeDecodeError", <<"invalid start byte">>)]
                      ELSE [ended |-> "returned", value |-> [i \in DOMAIN raw |-> raw[i].t]]

\* mutant: without the final `except Exception` clause
FetchHandlers_NoCatchAll(call, e) ==
    IF IsInstance(e, "RequestException")
    THEN Exc("ValueError", <<"Failed to fetch template from ", call.repo, "/">> \o call.path.v \o <<": ">> \o e.msg)
    ELSE e

\* the three except clauses, in order: what the caller finally receives
FetchHandlers(call, e) ==
    IF IsInstance(e, "RequestException")
    THEN Exc("ValueError", <<"Failed to fetch template from ", call.repo, "/">> \o call.path.v \o <<": ">> \o e.msg)
    ELSE IF IsInstance(e, "ValueError")
    THEN e
    ELSE Exc("ValueError", <<"Failed to fetch template from ", call.repo, "/">> \o call.path.v \o <<": ">> \o e.msg)

\* fetch_github_template(repo, path, ref, api_url_base) for one response
FetchGithubTemplate(call, resp) ==
    LET b == FetchBody(call, resp)
    IN  IF b.ended = "returned"
        THEN b
        ELSE [ended |-> "raised", exc |-> FetchHandlers(call, b.exc)]

----------------------------------------------------------------------------
(* Sampling configuration *)

\* token_config of gemini_generator.main: the parsed flags as they are
TokenConfig ==
    [ temperature       |-> Args.temperature,
      top_p             |-> Args.top_p,
      top_k             |-> Args.top_k,
      max_output_tokens |-> Args.max_output_tokens,
      candidate_count   |-> 1 ]

\* GeminiModelSettings(...) of create_gemini_agent: four entries of
\* token_config, copied
GeminiModelSettings(tc) ==
    [ k \in SamplingFlags |-> tc[k] ]

\* mutant: an override is taken when the flag is truthy, so 0 is not
TokenConfigOverrides_Truthy ==
    [ k \in { f \in SamplingFlags \cap DOMAIN argv : argv[f] # 0 } |-> argv[k] ]

\* token_config_overrides of main.py: the sampling flags that are not None
TokenConfigOverrides ==
    [ k \in SamplingFlags \cap DOMAIN argv |-> argv[k] ]

\* base_token_config of ProjectPrompt._initialize_generators
BaseTokenConfig ==
    [ temperature |-> 20, top_p |-> 95, top_k |-> 40,
      max_output_tokens |-> 16384, candidate_count |-> 1 ]

\* base_token_config.update(overrides); main_content_token_config is a copy
MainContentTokenConfig == TokenConfigOverrides @@ BaseTokenConfig

\* the sampling configuration that goes out with a request
SubmittedConfig ==
    IF prog = "gemini_generator"
    THEN GeminiModelSettings(TokenConfig)
    ELSE MainContentTokenConfig

----------------------------------------------------------------------------
(* Inputs *)

\* a flag is absent (<< >>) or given once with a value (<<value>>)
StrChoices(v) == { << >>, <<"">>, <<v>> }

JsonOutputChoices == { << >>, << << >> >>, << <<"out", "output.json">> >> }

MarkdownOutputChoices ==
    { << >>, << << >> >>, << <<"output.md">> >>, << <<"out", "output.md">> >> }

OutputDirChoices == { << >>, << <<"od">> >> }

ModelChoices ==
    { << >>,
      << <<"google-gla:", "models/", "gemini-2.0-flash">> >>,
      << <<"models/", "gemini-exp">> >>,
      << <<"gemini-1.5-flash">> >> }

KeyChoices == { << >>, <<"">>, <<"INVALID_KEY_FOR_TESTING">>, <<"VALID_KEY">> }

NoFlags == [k \in {} |-> << >>]

\* the part of a command line / environment one flag contributes
Flag(name, choice) == IF choice = << >> THEN NoFlags ELSE (name :> choice[1])

\* a file system that lets everything through
FsOk == [templateOk |-> TRUE, blocked |-> {}]

\* templates/project_prompt_template.j2 cannot be read
FsNoTemplate == [templateOk |-> FALSE, blocked |-> {}]

\* the directories out/ and od/ cannot be created
FsBlocked == [templateOk |-> TRUE, blocked |-> {Cwd \o <<"out">>, Cwd \o <<"od">>}]

\* --temperature 0.7 --top_p 1.0 --top_k 1 --max_output_tokens 1024
SamplingInRange ==
    [ temperature |-> 70, top_p |-> 100, top_k |-> 1, max_output_tokens |-> 1024 ]

\* --temperature -0.5 --top_p 1.5 --top_k 0 --max_output_tokens 0
SamplingOutOfRange ==
    [ temperature |-> -50, top_p |-> 150, top_k |-> 0, max_output_tokens |-> 0 ]

\* --placeholder_format '{{%s}}' --placeholder_vars project_name,repo_org
PlaceholderFlags ==
    [ placeholder_format |-> "{{%s}}",
      placeholder_vars   |-> <<"project_name", ",", "repo_org">> ]

\* what a run may have on top of the basic command line: further flags
\* (which replace a basic flag of the same name) and a file system
Variations ==
    { [flags |-> NoFlags,            fsenv |-> FsOk],
      [flags |-> NoFlags,            fsenv |-> FsNoTemplate],
      [flags |-> NoFlags,            fsenv |-> FsBlocked],
      [flags |-> SamplingInRange,    fsenv |-> FsOk],
      [flags |-> SamplingOutOfRange, fsenv |-> FsOk],
      [flags |-> ("temperature" :> 0), fsenv |-> FsOk],
      [flags |-> ("enable_search_grounding" :> "False"), fsenv |-> FsOk],
      [flags |-> PlaceholderFlags, fsenv |-> FsOk],
      [flags |-> ("create_with_placeholders" :> "true") @@ PlaceholderFlags, fsenv |-> FsOk],
      [flags |-> ("use_existing_template" :> "true"),          fsenv |-> FsOk],
      [flags |-> ("markdown_output" :> <<"..", "up.md">>),      fsenv |-> FsOk],
      [flags |-> ("markdown_output" :> <<"/", "abs", "a.md">>), fsenv |-> FsOk] }

\* fetch_github_template has not been called
FetchIdle == [called |-> FALSE]

Init ==
    /\ prog \in {"gemini_generator", "main"}
    /\ \E pp \in StrChoices("A CLI widget"), ro \in StrChoices("acme"),
          pn \in StrChoices("Widget"), jo \in JsonOutputChoices,
          mo \in MarkdownOutputChoices, od \in OutputDirChoices,
          gm \in ModelChoices,
      v \in Variations :
          /\ argv = v.flags
                    @@ Flag("project_prompt", pp) @@ Flag("repo_org", ro)
                    @@ Flag("project_name", pn) @@ Flag("json_output", jo)
                    @@ Flag("markdown_output", mo) @@ Flag("output_dir", od)
                    @@ Flag("gemini_model", gm)
          /\ fsenv = v.fsenv
    /\ \E key \in KeyChoices : environ = Flag("GEMINI_API_KEY", key)
    /\ pc = "start"
    /\ gam = GamIdle
    /\ gamCalls = 0
    /\ probes = << >>
    /\ requests = 0
    /\ result = EmptyDict
    /\ builder = "none"
    /\ genFailed = FALSE
    /\ genError = NoExc
    /\ exc = NoExc
    /\ dirs = Ancestors(Cwd)
    /\ files = NoFiles
    /\ stdout = << >>
    /\ exitCode = Running
    /\ submitted = << >>
    /\ writes = << >>
    /\ fetch = FetchIdle
    /\ agentRun = NoRun
    /\ promptInit = NoInit

\* sys.exit(code)
Exit(code) == pc' = "exit" /\ exitCode' = code

----------------------------------------------------------------------------
(* get_available_model, one probe per step *)

\* where the run continues when get_available_model returns
ReturnPc(caller) ==
    CASE caller = "configure" -> "g_api_checked"
      [] caller = "agent"     -> "g_run_agent"
      [] OTHER                -> "gam_returned"

\* model.generate_content("Test") on the requested model
Gam_ProbeRequested ==
    /\ pc = "gam_requested"
    /\ \E ok \in CallOutcomes :
          /\ gam' = AfterRequestedProbe(gam, ok)
          /\ probes' = Append(probes, gam.model)
    /\ pc' = IF gam'.done THEN ReturnPc(gam.caller) ELSE "gam_candidate"
    /\ UNCHANGED <<prog, argv, environ, agentRun, promptInit, fsenv, fetch, submitted, writes, gamCalls, requests, result, builder,
                   genFailed, genError, exc, dirs, files, stdout, exitCode>>

\* model.generate_content("Test") on the next candidate
Gam_ProbeCandidate ==
    /\ pc = "gam_candidate"
    /\ \E ok \in CallOutcomes :
          /\ gam' = AfterCandidateProbe(gam, ok)
          /\ probes' = Append(probes, candidate_models[gam.idx])
    /\ pc' = IF gam'.done THEN ReturnPc(gam.caller) ELSE "gam_candidate"
    /\ UNCHANGED <<prog, argv, environ, agentRun, promptInit, fsenv, fetch, submitted, writes, gamCalls, requests, result, builder,
                   genFailed, genError, exc, dirs, files, stdout, exitCode>>

----------------------------------------------------------------------------
(* gemini_generator.main *)

\* parser.parse_args(): argparse exits with status 2 on a bad command line
G_ParseArgs ==
    /\ pc = "start" /\ prog = "gemini_generator"
    /\ IF ParseOk
       THEN pc' = "g_prepare" /\ UNCHANGED exitCode
       ELSE Exit(2)
    /\ UNCHANGED <<prog, argv, environ, agentRun, promptInit, fsenv, fetch, submitted, writes, gam, gamCalls, probes, requests, result,
                   builder, genFailed, genError, exc, dirs, files, stdout>>

\* the error printed for empty required parameters
MissingParamsJson == [ error |-> <<"Missing required parameters: ">> \o MissingParams ]

\* output directories, required-parameter check and settings
G_Prepare ==
    /\ pc = "g_prepare"
    /\ LET d1 == Dirname(Abspath(Args.json_output))
           d2 == Dirname(Abspath(Args.markdown_output))
       IN  IF ~(MakedirsOk(d1) /\ MakedirsOk(d2))
           THEN /\ exc' = Exc("FileNotFoundError", <<"No such file or directory">>)
                /\ pc' = "g_except"
                /\ UNCHANGED <<dirs, stdout, exitCode>>
           ELSE /\ dirs' = MakedirsDirs(MakedirsDirs(dirs, d1), d2)
                /\ IF Len(MissingParams) > 0
                   THEN /\ stdout' = Append(stdout, MissingParamsJson)
                        /\ Exit(0)
                        /\ UNCHANGED exc
                   ELSE /\ pc' = "g_configure"
                        /\ UNCHANGED <<stdout, exitCode, exc>>
    /\ UNCHANGED <<prog, argv, environ, agentRun, promptInit, fsenv, fetch, submitted, writes, gam, gamCalls, probes, requests, result,
                   builder, genFailed, genError, files>>

\* configure_gemini_api up to its call of get_available_model()
G_ConfigureApi ==
    /\ pc = "g_configure"
    /\ IF ~TruthyStr(ApiKey)
       THEN /\ exc' = Exc("ValueError", <<"GEMINI_API_KEY environment variable not set">>)
            /\ pc' = "g_except"
            /\ UNCHANGED <<gam, gamCalls>>
       ELSE /\ gam' = GamStart(DefaultRequestedModel, "configure")
            /\ gamCalls' = gamCalls + 1
            /\ pc' = "gam_requested"
            /\ UNCHANGED exc
    /\ UNCHANGED <<prog, argv, environ, agentRun, promptInit, fsenv, fetch, submitted, writes, probes, requests, result, builder,
                   genFailed, genError, dirs, files, stdout, exitCode>>

\* mutant: the connectivity test passes only when some probe succeeded
ConfigureResult_ProbeSucceeded(g) == \E i \in DOMAIN g.log : g.log[i].ok

\* what configure_gemini_api returns once get_available_model has ended
ConfigureResult(g) == ~g.raised

\* gemini_model after main's own clean-up
MainGeminiModel == StripGoogleGla(Args.gemini_model)

\* str.lower(), for the spellings of a boolean flag
Lower(str) ==
    CASE str \in {"True", "TRUE"}   -> "true"
      [] str \in {"False", "FALSE"} -> "false"
      [] OTHER                      -> str

\* ENABLE_SEARCH_GROUNDING after main has set it from the command line
EnableSearchGrounding == Lower(Args.enable_search_grounding) = "true"

\* '2.' in model, for a model identifier
Has2Dot(m) ==
    \E i \in DOMAIN m :
        m[i] \in { "gemini-2.5-pro-preview-05-06", "gemini-2.5-flash-preview-04-17",
                   "gemini-2.0-pro", "gemini-2.0-flash", "gemini-2.0-flash-lite" }

\* search credentials: GOOGLE_SEARCH_API_KEY or GOOGLE_API_KEY in the environment
SearchCredentials ==
    \/ TruthyStr(Get(environ, "GOOGLE_SEARCH_API_KEY", ""))
    \/ TruthyStr(Get(environ, "GOOGLE_API_KEY", ""))

\* create_gemini_agent: the settings of the agent carry the search tool
AgentSettingsTools(working, hasTools) ==
    EnableSearchGrounding /\ Has2Dot(working) /\ SearchCredentials /\ hasTools

\* generate_content: the settings passed to run_sync carry the search tool
RunSettingsTools(model, hasTools) ==
    EnableSearchGrounding /\ Has2Dot(model) /\ hasTools

\* whether the settings object of the installed library has a `tools`
\* attribute is asked only where a tool is about to be attached
HasToolsChoices(model, working) ==
    IF EnableSearchGrounding /\ (Has2Dot(model) \/ Has2Dot(working))
    THEN BOOLEAN ELSE {FALSE}

\* args.placeholder_vars.split(',')
Split(toks) == SelectSeq(toks, LAMBDA t : t # ",")

\* args.create_with_placeholders.lower() in ["true", "yes", "1", "t"]
CreateWithPlaceholders ==
    Lower(Args.create_with_placeholders) \in {"true", "yes", "1", "t"}

\* input_data of gemini_generator.main, built from the parsed arguments
InputData ==
    [ project_prompt           |-> Args.project_prompt,
      repo_org                 |-> Args.repo_org,
      project_name             |-> Args.project_name,
      gemini_model             |-> Args.gemini_model,
      create_with_placeholders |-> IF CreateWithPlaceholders THEN "true" ELSE "false",
      enable_search_grounding  |-> Args.enable_search_grounding,
      placeholder_format       |-> Args.placeholder_format,
      placeholder_variables    |-> Split(Args.placeholder_vars) ]

\* template_instruction: json.loads(input_data.get('template_instruction', "{}"))
TemplateInstruction ==
    IF "template_instruction" \in DOMAIN InputData
    THEN InputData["template_instruction"]
    ELSE EmptyDict

\* placeholder_format and placeholder_vars of gemini_generator.main, read
\* from template_instruction
PlaceholderFormat == Get(TemplateInstruction, "placeholder_format", "${%s}")

PlaceholderVars ==
    Get(TemplateInstruction, "placeholder_variables",
        <<"project_name", "repo_org", "project_type", "programming_language">>)

\* the placeholder arguments of generate_content(...)
GeminiPlaceholderArgs ==
    [ create_with_placeholders |-> InputData["create_with_placeholders"] = "true",
      placeholder_format       |-> PlaceholderFormat,
      placeholder_vars         |-> PlaceholderVars ]

\* the placeholder arguments of MainContentGenerator.generate(...), as
\* main.py hands them to ProjectPrompt
MainPlaceholderArgs ==
    [ placeholder_format |-> Args.placeholder_format,
      placeholder_vars   |-> Split(Args.placeholder_vars) ]

\* what goes out with the request of generate_content: the sampling
\* configuration, the models, and whether a search tool is attached
SubmittedRequest(model, working, hasTools) ==
    [ requested   |-> model,
      working     |-> working,
      agent_tools |-> AgentSettingsTools(working, hasTools),
      run_tools   |-> RunSettingsTools(model, hasTools) ]
    @@ GeminiPlaceholderArgs @@ SubmittedConfig

\* mutant: the flag is read from a key the input dictionary does have
UseExistingTemplate_FromCreateFlag ==
    Get(InputData, "create_with_placeholders", FALSE) = "true"

\* use_existing_template = input_data.get('use_existing_template', False)
UseExistingTemplate == Get(InputData, "use_existing_template", FALSE)

\* what the server, or the network, answers, one case after the other
FetchResponses ==
    << [kind |-> "transport_error", data |-> PyNone],
      [kind |-> "http_error",      data |-> PyNone],
      [kind |-> "bad_json",        data |-> PyNone],
      [kind |-> "json", data |-> List(<<"a.json", "b.json">>)],
      [kind |-> "json", data |-> PyNone],
      [kind |-> "json", data |-> Dict([name |-> Str(<<"base.json">>)])],
      [kind |-> "json", data |-> Dict([content |-> PyNone])],
      [kind |-> "json", data |-> Dict([content |-> Str(<<B64("x"), BadPadding>>)])],
      [kind |-> "json", data |-> Dict([content |-> Str(<<InvalidUtf8>>)])],
      [kind |-> "json", data |-> Dict([content |-> Str(<< >>)])],
      [kind |-> "json", data |->
          Dict([content |-> Str(<<B64("# Widget"), Newline, B64("template"), Newline>>)])] >>

\* template_repo, template_path, template_ref and github_api_url of
\* input_data, the arguments of fetch_github_template
TemplateCall ==
    [ repo         |-> Get(InputData, "template_repo", None),
      path         |-> Get(InputData, "template_path", PyNone),
      ref          |-> Get(InputData, "template_ref", "main"),
      api_url_base |-> Get(InputData, "github_api_url", <<"https://api.github.com">>) ]

\* not all([template_repo, template_path])
TemplateCallIncomplete ==
    ~TruthyStr(TemplateCall.repo) \/ ~TruthyVal(TemplateCall.path)

\* the error printed when the template repository or path is missing
MissingTemplateJson == [ error |-> <<"Missing template repository or path">> ]

\* input_data.get('template_model', 'gemini-1.5-flash-latest')
TemplateModel == Get(InputData, "template_model", <<"gemini-1.5-flash-latest">>)

\* result of the template path: the raw template, with the analysis of
\* the template agent when placeholders are asked for
TemplateResult(content) ==
    LET raw == [ main                 |-> Str(content),
                 project_type         |-> Str(<<"Unknown">>),
                 programming_language |-> Str(<<"Unknown">>) ]
    IN  IF GeminiPlaceholderArgs.create_with_placeholders
        THEN raw @@ [ template_analysis |-> Str(<<"{}">>) ]
        ELSE raw

\* the model generate_content is called with: gemini_model, or the
\* template model in the fallback of the template path
GenerationModel == IF UseExistingTemplate THEN TemplateModel ELSE MainGeminiModel

\* the api_success branch; then either the template path (fetch of the
\* template, with generate_content as its fallback) or generate_content up
\* to the call of get_available_model inside create_gemini_agent
G_ApiChecked ==
    /\ pc = "g_api_checked"
    /\ IF ~ConfigureResult(gam)
       THEN /\ IF OpenOk(dirs, Args.json_output) /\ OpenOk(dirs, Args.markdown_output)
               THEN /\ files' = WriteFile(WriteFile(files, Args.json_output, ConnectionErrorJson),
                                          Args.markdown_output, ConnectionErrorMarkdown)
                    /\ Exit(1)
                    /\ UNCHANGED exc
               ELSE /\ files' = IF OpenOk(dirs, Args.json_output)
                                THEN WriteFile(files, Args.json_output, ConnectionErrorJson)
                                ELSE files
                    /\ exc' = Exc("FileNotFoundError", <<"No such file or directory">>)
                    /\ pc' = "g_except"
                    /\ UNCHANGED exitCode
            /\ UNCHANGED <<gam, gamCalls, fetch, stdout, result>>
       ELSE IF UseExistingTemplate
       THEN IF TemplateCallIncomplete
            THEN /\ stdout' = Append(stdout, MissingTemplateJson)
                 /\ Exit(0)
                 /\ UNCHANGED <<gam, gamCalls, fetch, result, files, exc>>
            ELSE \E n \in DOMAIN FetchResponses :
                    LET out == FetchGithubTemplate(TemplateCall, FetchResponses[n])
                    IN  /\ fetch' = [ called  |-> TRUE,
                                      call    |-> TemplateCall,
                                      url     |-> ApiUrl(TemplateCall),
                                      headers |-> Headers,
                                      resp    |-> FetchResponses[n],
                                      out     |-> out ]
                        /\ IF out.ended = "returned"
                           THEN /\ result' = TemplateResult(out.value)
                                /\ pc' = "g_write_json"
                                /\ UNCHANGED <<gam, gamCalls>>
                           ELSE /\ gam' = GamStart(TemplateModel, "agent")
                                /\ gamCalls' = gamCalls + 1
                                /\ pc' = "gam_requested"
                                /\ UNCHANGED result
                        /\ UNCHANGED <<files, exc, exitCode, stdout>>
       ELSE /\ gam' = GamStart(MainGeminiModel, "agent")
            /\ gamCalls' = gamCalls + 1
            /\ pc' = "gam_requested"
            /\ UNCHANGED <<files, exc, exitCode, fetch, stdout, result>>
    /\ UNCHANGED <<prog, argv, environ, agentRun, promptInit, fsenv, submitted, writes, probes, requests, builder,
                   genFailed, genError, dirs>>

\* the rest of create_gemini_agent and of generate_content
G_RunAgent ==
    /\ pc = "g_run_agent"
    /\ \E run \in (IF gam.raised
                   THEN {[kind |-> "resolve_raise", output |-> EmptyDict, meta |-> NoMeta]}
                   ELSE AgentRuns),
          hasTools \in HasToolsChoices(GenerationModel, gam.ret) :
          LET r == GenerateContent(run)
          IN  /\ requests' = requests + (IF IssuesRequest(run) /\ ~gam.raised THEN 1 ELSE 0)
              /\ submitted' = IF IssuesRequest(run) /\ ~gam.raised
                              THEN Append(submitted,
                                          SubmittedRequest(GenerationModel, gam.ret, hasTools))
                              ELSE submitted
              /\ agentRun' = run
              /\ genFailed' = (run.kind # "ok")
              /\ genError' = GenerateContentError(run)
              /\ builder' = r.ended
              /\ IF r.ended = "returned"
                 THEN result' = r.value /\ pc' = "g_write_json" /\ UNCHANGED exc
                 ELSE exc' = r.value /\ pc' = "g_except" /\ UNCHANGED result
    /\ UNCHANGED <<prog, argv, environ, promptInit, fsenv, fetch, writes, gam, gamCalls, probes, dirs, files,
                   stdout, exitCode>>

\* with open(args.json_output, 'w'): json.dump(result, ...)
G_WriteJson ==
    /\ pc = "g_write_json"
    /\ IF OpenOk(dirs, Args.json_output)
       THEN /\ files' = WriteFile(files, Args.json_output, result)
            /\ pc' = "g_write_md"
            /\ UNCHANGED exc
       ELSE /\ exc' = Exc("FileNotFoundError", <<"No such file or directory">>)
            /\ pc' = "g_except"
            /\ UNCHANGED files
    /\ UNCHANGED <<prog, argv, environ, agentRun, promptInit, fsenv, fetch, submitted, writes, gam, gamCalls, probes, requests, result,
                   builder, genFailed, genError, dirs, stdout, exitCode>>

\* the exit status at the end of the try block of gemini_generator.main
GeminiFinalExitCode(res) == 0

\* Markdown conversion and writing, then sys.exit
G_WriteMarkdown ==
    /\ pc = "g_write_md"
    /\ files' = IF OpenOk(dirs, Args.markdown_output)
                THEN WriteFile(files, Args.markdown_output,
                               convert_json_to_markdown(JsonForMd(result)))
                ELSE files
    /\ Exit(GeminiFinalExitCode(result))
    /\ UNCHANGED <<prog, argv, environ, agentRun, promptInit, fsenv, fetch, submitted, writes, gam, gamCalls, probes, requests, result,
                   builder, genFailed, genError, exc, dirs, stdout>>

\* except Exception as e: of gemini_generator.main
G_Except ==
    /\ pc = "g_except"
    /\ files' = IF OpenOk(dirs, Args.json_output)
                THEN LET f1 == WriteFile(files, Args.json_output, UnhandledErrorJson(exc))
                     IN  IF OpenOk(dirs, Args.markdown_output)
                         THEN WriteFile(f1, Args.markdown_output, UnhandledErrorMarkdown(exc))
                         ELSE f1
                ELSE files
    /\ Exit(1)
    /\ UNCHANGED <<prog, argv, environ, agentRun, promptInit, fsenv, fetch, submitted, writes, gam, gamCalls, probes, requests, result,
                   builder, genFailed, genError, exc, dirs, stdout>>

----------------------------------------------------------------------------
(* main.py main *)

M_ParseArgs ==
    /\ pc = "start" /\ prog = "main"
    /\ IF ParseOk
       THEN pc' = "m_setup" /\ UNCHANGED exitCode
       ELSE Exit(2)
    /\ UNCHANGED <<prog, argv, environ, agentRun, promptInit, fsenv, fetch, submitted, writes, gam, gamCalls, probes, requests, result,
                   builder, genFailed, genError, exc, dirs, files, stdout>>

\* open(project_prompt_template.j2) succeeds
TemplateLoads == fsenv.templateOk

\* the output directory is created eagerly; the Markdown template is read;
\* a failure of either is logged and ends the run with sys.exit(1)
M_Setup ==
    /\ pc = "m_setup"
    /\ IF TruthyPath(Args.output_dir) /\ ~MakedirsOk(Args.output_dir)
       THEN /\ Exit(1)
            /\ UNCHANGED dirs
       ELSE /\ dirs' = IF TruthyPath(Args.output_dir)
                       THEN MakedirsDirs(dirs, Args.output_dir)
                       ELSE dirs
            /\ IF TemplateLoads
               THEN pc' = "m_check_key" /\ UNCHANGED exitCode
               ELSE Exit(1)
    /\ UNCHANGED <<prog, argv, environ, agentRun, promptInit, fsenv, fetch, submitted, writes, gam, gamCalls, probes, requests, result,
                   builder, genFailed, genError, exc, files, stdout>>

\* api_key = os.getenv("GEMINI_API_KEY"); if not api_key: ...
M_CheckKey ==
    /\ pc = "m_check_key"
    /\ IF ~TruthyStr(ApiKey)
       THEN LET w == write_error_markdown(dirs, files, Args, <<"GEMINI_API_KEY not set.">>, << >>)
            IN  /\ dirs' = w.dirs
                /\ files' = w.files
                /\ writes' = Append(writes, [writer |-> "write_error_markdown",
                                             path |-> write_error_markdown_path(Args),
                                             ok |-> w.ok])
                /\ IF w.ok
                   THEN Exit(1) /\ UNCHANGED exc
                   ELSE /\ exc' = Exc("FileNotFoundError", <<"No such file or directory">>)
                        /\ pc' = "m_except"
                        /\ UNCHANGED exitCode
       ELSE /\ pc' = "m_generate"
            /\ UNCHANGED <<dirs, files, writes, exc, exitCode>>
    /\ UNCHANGED <<prog, argv, environ, agentRun, promptInit, fsenv, fetch, submitted, gam, gamCalls, probes, requests, result,
                   builder, genFailed, genError, stdout>>

\* ProjectPrompt.__init__ up to the return of MainContentGenerator.generate
M_Generate ==
    /\ pc = "m_generate"
    /\ \E run \in AgentRuns :
          LET r == MainGenerate(run)
          IN  /\ requests' = requests + (IF IssuesRequest(run) THEN 1 ELSE 0)
              /\ submitted' = IF IssuesRequest(run)
                              THEN Append(submitted, MainPlaceholderArgs @@ SubmittedConfig)
                              ELSE submitted
              /\ agentRun' = run
              /\ genFailed' = (run.kind \notin {"ok", "run_none"})
              /\ genError' = MainGenerateError(run)
              /\ builder' = r.ended
              /\ IF r.ended = "returned"
                 THEN result' = r.value /\ pc' = "m_after_generate" /\ UNCHANGED exc
                 ELSE exc' = r.value /\ pc' = "m_except" /\ UNCHANGED result
    /\ UNCHANGED <<prog, argv, environ, promptInit, fsenv, fetch, writes, gam, gamCalls, probes, dirs, files,
                   stdout, exitCode>>

\* mutant: the handler of ProjectPrompt.__init__ ends without `raise`
ProjectPromptInit_NoReraise(doc) ==
    LET e == GeneratedContentCheck(doc)
    IN  IF e # NoExc
        THEN [ended |-> "returned", initialization_success |-> FALSE,
              project_output_data |-> ProjectOutput(InitErrorKwargs(e)), exc |-> NoExc]
        ELSE [ended |-> "returned", initialization_success |-> TRUE,
              project_output_data |-> doc, exc |-> NoExc]

\* ProjectPrompt.__init__ from the return of generate: the check of
\* _generate_all_content; on failure the handler builds the error document
\* and re-raises
ProjectPromptInit(doc) ==
    LET e == GeneratedContentCheck(doc)
    IN  IF e # NoExc
        THEN [ended |-> "raised", initialization_success |-> FALSE,
              project_output_data |-> ProjectOutput(InitErrorKwargs(e)), exc |-> e]
        ELSE [ended |-> "returned", initialization_success |-> TRUE,
              project_output_data |-> doc, exc |-> NoExc]

\* the end of the constructor, then the rest of main's try block
M_AfterGenerate ==
    /\ pc = "m_after_generate"
    /\ promptInit' = ProjectPromptInit(result)
    /\ LET init == ProjectPromptInit(result)
       IN  IF init.ended = "raised"
           THEN /\ result' = init.project_output_data
                /\ exc' = init.exc
                /\ pc' = "m_except"
                /\ UNCHANGED <<dirs, files, writes, exitCode>>
           ELSE IF ~init.initialization_success
           THEN \* the guard of main: error document, sys.exit(1)
                LET w == write_error_markdown(dirs, files, Args,
                             <<"Content generation failed during initialization.">>, << >>)
                IN  /\ dirs' = w.dirs
                    /\ files' = w.files
                    /\ writes' = Append(writes, [writer |-> "write_error_markdown",
                                                 path |-> write_error_markdown_path(Args),
                                                 ok |-> w.ok])
                    /\ IF w.ok
                       THEN Exit(1) /\ UNCHANGED exc
                       ELSE /\ exc' = Exc("FileNotFoundError", <<"No such file or directory">>)
                            /\ pc' = "m_except"
                            /\ UNCHANGED exitCode
                    /\ result' = init.project_output_data
           ELSE \* initialization_success is True here, and error is falsy
                LET w == write_markdown_output(dirs, files, Args, result)
                IN  /\ dirs' = w.dirs
                    /\ files' = w.files
                    /\ writes' = Append(writes, [writer |-> "write_markdown_output",
                                                 path |-> write_markdown_output_path(Args),
                                                 ok |-> w.ok])
                    /\ IF w.ok
                       THEN Exit(0) /\ UNCHANGED exc
                       ELSE /\ exc' = Exc("FileNotFoundError", <<"No such file or directory">>)
                            /\ pc' = "m_except"
                            /\ UNCHANGED exitCode
                    /\ UNCHANGED result
    /\ UNCHANGED <<prog, argv, environ, agentRun, fsenv, fetch, submitted, gam, gamCalls, probes, requests,
                   builder, genFailed, genError, stdout>>

\* except Exception as e: of main; an exception raised inside the handler
\* ends the interpreter with status 1
M_Except ==
    /\ pc = "m_except"
    /\ LET w == write_error_markdown(dirs, files, Args,
                                     <<"Unexpected error: ">> \o exc.msg, StackTrace(exc))
       IN  /\ dirs' = w.dirs
           /\ files' = w.files
           /\ writes' = Append(writes, [writer |-> "write_error_markdown",
                                        path |-> write_error_markdown_path(Args),
                                        ok |-> w.ok])
    /\ Exit(1)
    /\ UNCHANGED <<prog, argv, environ, agentRun, promptInit, fsenv, fetch, submitted, gam, gamCalls, probes, requests, result,
                   builder, genFailed, genError, exc, stdout>>

----------------------------------------------------------------------------

Next ==
    \/ Gam_ProbeRequested
    \/ Gam_ProbeCandidate
    \/ G_ParseArgs
    \/ G_Prepare
    \/ G_ConfigureApi
    \/ G_ApiChecked
    \/ G_RunAgent
    \/ G_WriteJson
    \/ G_WriteMarkdown
    \/ G_Except
    \/ M_ParseArgs
    \/ M_Setup
    \/ M_CheckKey
    \/ M_Generate
    \/ M_AfterGenerate
    \/ M_Except

Spec == Init /\ [][Next]_vars

----------------------------------------------------------------------------
(* get_available_model on its own, for every shape of requested identifier *)

\* the longest run of prefixes put in front of a requested identifier
MaxPrefixes == 2

ModelPrefixes == {"google-gla:", "models/"}

BareNames == {"gemini-1.5-pro", "gemini-exp", "gemini-pro"}

PrefixSeqs == UNION { [1..n -> ModelPrefixes] : n \in 0..MaxPrefixes }

RequestedIds == { pre \o <<n>> : pre \in PrefixSeqs, n \in BareNames }

InitGam ==
    /\ prog = "gemini_generator"
    /\ argv = NoFlags
    /\ \E key \in {<<"INVALID_KEY_FOR_TESTING">>, <<"VALID_KEY">>} :
          environ = Flag("GEMINI_API_KEY", key)
    /\ pc = "gam_requested"
    /\ \E req \in RequestedIds : gam = GamStart(req, "direct")
    /\ fsenv = FsOk
    /\ gamCalls = 1
    /\ probes = << >>
    /\ requests = 0
    /\ result = EmptyDict
    /\ builder = "none"
    /\ genFailed = FALSE
    /\ genError = NoExc
    /\ exc = NoExc
    /\ dirs = Ancestors(Cwd)
    /\ files = NoFiles
    /\ stdout = << >>
    /\ exitCode = Running
    /\ submitted = << >>
    /\ writes = << >>
    /\ fetch = FetchIdle
    /\ agentRun = NoRun
    /\ promptInit = NoInit

NextGam == Gam_ProbeRequested \/ Gam_ProbeCandidate

SpecGam == InitGam /\ [][NextGam]_vars

----------------------------------------------------------------------------
(* fetch_github_template on its own, for every kind of response *)

\* the calls: repository, path (None included), ref, API base
FetchCalls ==
    [ repo         : {"acme/templates", "acme/gone"},
      path         : {Str(<<"templates", "base.json">>), Str(<<"docs">>), PyNone},
      ref          : {"main", ""},
      api_url_base : {<<"https://api.github.com">>, <<"https://ghe.example/api/v3", "/">>} ]

InitFetch ==
    /\ prog = "gemini_generator"
    /\ argv = NoFlags
    /\ \E tok \in {<< >>, <<"">>, <<"ghp_token">>} : environ = Flag("GITHUB_TOKEN", tok)
    /\ fsenv = FsOk
    /\ pc = "fetch_start"
    /\ gam = GamIdle
    /\ gamCalls = 0
    /\ probes = << >>
    /\ requests = 0
    /\ result = EmptyDict
    /\ builder = "none"
    /\ genFailed = FALSE
    /\ genError = NoExc
    /\ exc = NoExc
    /\ dirs = Ancestors(Cwd)
    /\ files = NoFiles
    /\ stdout = << >>
    /\ exitCode = Running
    /\ submitted = << >>
    /\ writes = << >>
    /\ \E c \in FetchCalls : fetch = [called |-> FALSE, call |-> c]
    /\ agentRun = NoRun
    /\ promptInit = NoInit

\* one call of fetch_github_template, from the request to return or raise
Fetch_Call ==
    /\ pc = "fetch_start"
    /\ \E n \in DOMAIN FetchResponses :
          LET resp == FetchResponses[n] IN
          fetch' = [ called  |-> TRUE,
                    call    |-> fetch.call,
                    url     |-> ApiUrl(fetch.call),
                    headers |-> Headers,
                    resp    |-> resp,
                    out     |-> FetchGithubTemplate(fetch.call, resp) ]
    /\ pc' = "fetch_done"
    /\ UNCHANGED <<prog, argv, environ, agentRun, promptInit, fsenv, submitted, writes, gam, gamCalls,
                   probes, requests, result, builder, genFailed, genError, exc,
                   dirs, files, stdout, exitCode>>

NextFetch == Fetch_Call

SpecFetch == InitFetch /\ [][NextFetch]_vars

----------------------------------------------------------------------------
(* generate_content on its own, for every shape of the provider result *)

\* how a field of the output arrives
FieldStates == {"given", "null", "missing"}

\* the output in which each field is given, None or not there at all
OutputOfShape(shape) ==
    [ f \in { g \in DOMAIN shape : shape[g] # "missing" } |->
          IF shape[f] = "null" THEN PyNone ELSE SampleOutput[f] ]

\* the shapes of grounding metadata, one after the other
MetaShapes ==
    << NoMeta,
       Meta("candidate_none", Attr("NoneType", << >>), Attr("NoneType", << >>)),
       Meta("metadata_none",  Attr("NoneType", << >>), Attr("NoneType", << >>)),
       Meta("access_raises",  Attr("NoneType", << >>), Attr("NoneType", << >>)),
       Meta("present", Attr("NoneType", << >>), Attr("NoneType", << >>)),
       Meta("present", Attr("object", << >>),   Attr("object", << >>)),
       Meta("present", Attr("raises", << >>),   Attr("raises", << >>)),
       Meta("present", Attr("list", <<"go cli">>),
            Attr("list", << Chunk("missing", "", ""), Chunk("none", "", ""),
                            Chunk("no_uri", "", "T") >>)),
       Meta("present", Attr("list", <<"go cli">>),
            Attr("list", << Chunk("uri", "https://go.dev", "Go"),
                            Chunk("missing", "", ""),
                            Chunk("uri", "https://cli.dev", "") >>)) >>

InitGen ==
    /\ prog = "gemini_generator"
    /\ argv = NoFlags
    /\ environ = Flag("GEMINI_API_KEY", <<"VALID_KEY">>)
    /\ fsenv = FsOk
    /\ pc = "gen_start"
    /\ gam = GamIdle
    /\ gamCalls = 0
    /\ probes = << >>
    /\ requests = 0
    /\ result = EmptyDict
    /\ builder = "none"
    /\ genFailed = FALSE
    /\ genError = NoExc
    /\ exc = NoExc
    /\ dirs = Ancestors(Cwd)
    /\ files = NoFiles
    /\ stdout = << >>
    /\ exitCode = Running
    /\ submitted = << >>
    /\ writes = << >>
    /\ fetch = FetchIdle
    /\ promptInit = NoInit
    /\ \E shape \in [DOMAIN SampleOutput -> FieldStates], n \in DOMAIN MetaShapes :
          agentRun = [kind |-> "ok", output |-> OutputOfShape(shape), meta |-> MetaShapes[n]]

\* generate_content from the return of run_sync to its own return
Gen_Call ==
    /\ pc = "gen_start"
    /\ LET r == GenerateContent(agentRun)
       IN  /\ builder' = r.ended
           /\ IF r.ended = "returned"
              THEN result' = r.value /\ UNCHANGED exc
              ELSE exc' = r.value /\ UNCHANGED result
    /\ requests' = requests + 1
    /\ pc' = "gen_done"
    /\ UNCHANGED <<prog, argv, environ, agentRun, promptInit, fsenv, fetch, submitted, writes, gam,
                   gamCalls, probes, genFailed, genError, dirs, files, stdout, exitCode>>

NextGen == Gen_Call

SpecGen == InitGen /\ [][NextGen]_vars

----------------------------------------------------------------------------
(* Properties of get_available_model *)

\* the probe of the requested identifier has been made and succeeded
RequestedProbeSucceeded == Len(gam.log) >= 1 /\ gam.log[1].ok

\* every probe of the call so far has failed
AllProbesFailed == \A i \in DOMAIN gam.log : ~gam.log[i].ok

\* C1 as stated: whenever the probe of the requested identifier succeeds,
\* the identifier returned is the requested identifier unchanged, prefixes
\* included, and no fallback candidate is probed.
C1_ReturnedUnchanged ==
    (gam.done /\ RequestedProbeSucceeded)
        => (gam.ret = gam.requested /\ Len(gam.log) = 1)

\* the prefix patterns the clean-up can remove
StrippedPrefixes ==
    { << >>, <<"google-gla:">>, <<"models/">>, <<"google-gla:", "models/">> }

IsPrefixOf(pre, m) == Len(pre) <= Len(m) /\ SubSeq(m, 1, Len(pre)) = pre

\* ret is req without the longest removable prefix pattern it starts with
IsCleanOf(ret, req) ==
    \E pre \in StrippedPrefixes :
        /\ req = pre \o ret
        /\ \A longer \in StrippedPrefixes :
              Len(longer) > Len(pre) => ~IsPrefixOf(longer, req)

\* C1 amended: whenever the probe of the requested identifier succeeds, the
\* identifier returned is the requested identifier with a leading
\* 'google-gla:' and then a leading 'models/' removed (unchanged when it has
\* neither), that identifier is the one probed, and no fallback candidate is
\* probed.
C1_ReturnedCleaned ==
    (gam.done /\ RequestedProbeSucceeded)
        => /\ IsCleanOf(gam.ret, gam.requested)
           /\ gam.log[1].model = gam.ret
           /\ Len(gam.log) = 1

\* C1 witness: a prefixed identifier whose probe succeeded and was returned
C1_Witness ==
    /\ gam.done /\ RequestedProbeSucceeded
    /\ gam.requested = <<"google-gla:", "models/", "gemini-exp">>
    /\ gam.ret = <<"gemini-exp">>

\* C2: when the probe of the requested identifier fails, the candidates are
\* probed in list order, each probed candidate before the last one failed,
\* and a call that ends on a successful probe returns that candidate: the
\* first one whose probe succeeds, with nothing probed after it.
C2_FirstSuccessfulCandidate ==
    /\ \A i \in 2..Len(gam.log) :
          /\ ~gam.log[1].ok
          /\ gam.log[i].model = candidate_models[i - 1]
          /\ (i < Len(gam.log) => ~gam.log[i].ok)
    /\ (Len(gam.log) >= 2 /\ gam.log[Len(gam.log)].ok)
          => (gam.done /\ gam.ret = candidate_models[Len(gam.log) - 1])
    /\ (gam.done /\ Len(gam.log) >= 2 /\ gam.ret # LegacyModel)
          => gam.log[Len(gam.log)].ok

\* C2 witness: the requested probe and two candidates failed, the third
\* candidate succeeded and is returned
C2_Witness ==
    /\ gam.done
    /\ Len(gam.log) = 4
    /\ ~gam.log[1].ok /\ ~gam.log[2].ok /\ ~gam.log[3].ok /\ gam.log[4].ok
    /\ gam.ret = <<"gemini-2.0-pro">>

\* C3: get_available_model never raises; when the probe of the requested
\* identifier and of every candidate failed it returns 'gemini-pro', whose
\* own probe failed.
C3_NeverRaisesLegacyDefault ==
    /\ ~gam.raised
    /\ (AllProbesFailed /\ Len(gam.log) = 1 + Len(candidate_models))
          => /\ gam.done
             /\ gam.ret = <<"gemini-pro">>
             /\ gam.log[Len(gam.log)].model = gam.ret

\* C3 witness: every probe of a call failed
C3_Witness ==
    /\ gam.done
    /\ AllProbesFailed
    /\ Len(gam.log) = 1 + Len(candidate_models)

\* C4 as stated: during one call no identifier is probed more than once.
C4_NoIdentifierProbedTwice ==
    \A i, j \in DOMAIN gam.log :
        i # j => gam.log[i].model # gam.log[j].model

----------------------------------------------------------------------------
(* Properties of the two runs *)

\* the request builder has just handed its result to its caller
BuilderJustReturned ==
    \/ prog = "gemini_generator" /\ pc = "g_write_json"
    \/ prog = "main" /\ pc = "m_after_generate"

EmptyOrPlaceholder(doc) ==
    /\ doc["best_practices"] = List(<< >>)
    /\ doc["suggested_extensions"] = List(<< >>)
    /\ doc["documentation_source"] = List(<< >>)
    /\ doc["copilot_instructions"] = Str(<< >>)
    /\ doc["project_type"] = Str(<<"Unknown">>)
    /\ doc["programming_language"] = Str(<<"Unknown">>)

\* C5: the request builder never propagates an exception: generate_content
\* and MainContentGenerator.generate always return, and after a failure the
\* returned value carries the error message and the stack trace (in the
\* error / stack_trace entries of generate_content's dictionary, in the
\* readme text of generate's ProjectOutput) with empty or placeholder
\* values everywhere else.
C5_BuilderNeverPropagates ==
    /\ builder \in {"none", "returned"}
    /\ (BuilderJustReturned => builder = "returned")
    /\ (BuilderJustReturned /\ genFailed /\ prog = "gemini_generator")
          => /\ result["error"] = Str(genError.msg)
             /\ Contains(result["stack_trace"].v, genError.msg)
             /\ result["main"] = JsonDumps(EmptyDict)
             /\ result["project_type"] = Str(<<"Unknown">>)
             /\ result["programming_language"] = Str(<<"Unknown">>)
    /\ (BuilderJustReturned /\ genFailed /\ prog = "main")
          => /\ Contains(result["readme_content"].v, genError.msg)
             /\ Contains(result["readme_content"].v, StackTrace(genError))
             /\ EmptyOrPlaceholder(result)

\* C5 witness: generate_content returned after the provider call failed
C5_Witness ==
    /\ prog = "gemini_generator" /\ pc = "g_write_json"
    /\ builder = "returned" /\ genFailed
    /\ genError.type = "ValueError"

\* C6 as stated: the document handed on by the request builder has an error
\* field, null by default, that is non-null exactly when generation failed.
C6_ErrorFieldKept ==
    (prog = "main" /\ pc = "m_after_generate")
        => /\ HasAttr(result, "error")
           /\ (TruthyVal(result["error"]) <=> genFailed)

\* an output file exists and holds something
NonEmptyFile(p) == p \in DOMAIN files /\ files[p] # << >>

\* the command line is complete: everything required is given and non-empty
WellFormedArgs ==
    /\ ParseOk
    /\ Len(MissingParams) = 0
    /\ Len(Args.markdown_output) > 0
    /\ (prog = "gemini_generator" => Len(Args.json_output) > 0)

\* C7 as stated: a run in which content generation failed (the request
\* builder returned a result carrying an error) exits with a non-zero code;
\* exit code 0 occurs only for runs without a generation failure.
C7_GenerationFailureExitsNonZero ==
    (pc = "exit" /\ WellFormedArgs /\ genFailed) => exitCode # 0

\* C8 as stated: after a run with an invalid API key both outputs exist and
\* are non-empty, the Markdown holds "Error", the JSON has an "error" field,
\* and the exit code is non-zero.
C8_InvalidKeyLeavesErrorFiles ==
    ( /\ pc = "exit" /\ prog = "gemini_generator" /\ WellFormedArgs
      /\ ApiKey = "INVALID_KEY_FOR_TESTING" )
        => /\ NonEmptyFile(Args.json_output)
           /\ NonEmptyFile(Args.markdown_output)
           /\ Contains(files[Args.markdown_output], <<"Error">>)
           /\ "error" \in DOMAIN files[Args.json_output]
           /\ exitCode # 0

\* the error document(s) are at the configured output path(s)
ErrorDocumentsWritten ==
    IF prog = "gemini_generator"
    THEN /\ NonEmptyFile(Args.json_output)
         /\ NonEmptyFile(Args.markdown_output)
         /\ Contains(files[Args.markdown_output], <<"Error">>)
    ELSE /\ NonEmptyFile(write_error_markdown_path(Args))
         /\ Contains(files[write_error_markdown_path(Args)], <<"Error">>)

\* C9 as stated: with GEMINI_API_KEY absent or empty the run makes no
\* provider call, writes an error document to the configured output
\* path(s) and exits with code 1.
C9_MissingKeyWritesErrorDocument ==
    (pc = "exit" /\ WellFormedArgs /\ ~TruthyStr(ApiKey))
        => /\ probes = << >> /\ requests = 0
           /\ ErrorDocumentsWritten
           /\ exitCode = 1

\* a required argument is not given, or given with an empty value
RequiredArgumentMissing ==
    \E k \in RequiredFlags(prog) :
        \/ k \notin DOMAIN argv
        \/ argv[k] = (IF k \in {"json_output", "markdown_output"} THEN << >> ELSE "")

\* C10 as stated: if a required argument is missing or empty the process
\* exits non-zero and writes no output file.
C10_MissingArgumentFails ==
    (pc = "exit" /\ RequiredArgumentMissing)
        => (exitCode # 0 /\ files = NoFiles)

----------------------------------------------------------------------------
(* Properties of error reporting and of the written documents *)

\* the JSON document at path p carries an error message
JsonHoldsError(p) ==
    /\ p \in DOMAIN files
    /\ DOMAIN files[p] \cap {"error", "error_message"} # {}

\* the Markdown document at path p carries an error message
MarkdownHoldsError(p) ==
    /\ p \in DOMAIN files
    /\ Contains(files[p], <<"Error">>)

\* some output document of the run carries the error message
SomeOutputHoldsError ==
    IF prog = "gemini_generator"
    THEN JsonHoldsError(Args.json_output) \/ MarkdownHoldsError(Args.markdown_output)
    ELSE MarkdownHoldsError(write_error_markdown_path(Args))

\* C11 as stated: every invocation with a complete command line that ends
\* in failure (non-zero exit status), whatever step failed, leaves at least
\* one Markdown or JSON output file that contains the error message.
C11_FailureLeavesErrorFile ==
    (pc = "exit" /\ WellFormedArgs /\ exitCode # 0) => SomeOutputHoldsError

\* C12: for every argument set the error reporter writes where the success
\* path would write: write_error_markdown computes the same target as
\* write_markdown_output (with and without output_dir), every write of
\* OutputFileWriter goes to that target, and gemini_generator.main, handlers
\* included, writes nothing but json_output and markdown_output.
C12_ErrorReporterSamePaths ==
    ParseOk =>
        /\ prog = "main" =>
              /\ write_error_markdown_path(Args) = write_markdown_output_path(Args)
              /\ \A i \in DOMAIN writes :
                    writes[i].path = write_markdown_output_path(Args)
              /\ DOMAIN files \subseteq {write_markdown_output_path(Args)}
        /\ prog = "gemini_generator" =>
              /\ DOMAIN files \subseteq {Args.json_output, Args.markdown_output}
              /\ (pc = "exit" /\ exitCode = 1 /\ exc # NoExc /\ Args.json_output \in DOMAIN files)
                    => files[Args.json_output] = UnhandledErrorJson(exc)

\* C12 witness: with --output_dir od and --markdown_output out/output.md the
\* error reporter of main.py has written od/output.md
C12_Witness ==
    /\ prog = "main" /\ pc = "exit" /\ ParseOk
    /\ Args.output_dir = <<"od">>
    /\ Args.markdown_output = <<"out", "output.md">>
    /\ Len(writes) = 1 /\ writes[1].ok
    /\ writes[1].writer = "write_error_markdown"
    /\ <<"od", "output.md">> \in DOMAIN files

\* the directories the run creates eagerly cannot be created
OutputDirUncreatable ==
    IF prog = "gemini_generator"
    THEN \/ ~MakedirsOk(Dirname(Abspath(Args.json_output)))
         \/ ~MakedirsOk(Dirname(Abspath(Args.markdown_output)))
    ELSE TruthyPath(Args.output_dir) /\ ~MakedirsOk(Args.output_dir)

\* a configuration failure: a required argument missing or empty, an output
\* directory that cannot be created, a template file that cannot be loaded
ConfigurationFailure ==
    \/ RequiredArgumentMissing
    \/ ParseOk /\ OutputDirUncreatable
    \/ ParseOk /\ prog = "main" /\ ~TemplateLoads

\* C13 as stated: in a run with a configuration failure no model probe, no
\* generation request and no template fetch is ever issued.
C13_ConfigFailureBeforeNetwork ==
    ConfigurationFailure =>
        (probes = << >> /\ requests = 0 /\ ~fetch.called)

\* the command line asks for the template-fetch path and gives every
\* required argument a value
TemplatePathSelected ==
    /\ "use_existing_template" \in DOMAIN argv
    /\ RequiredFlags(prog) \subseteq DOMAIN argv
    /\ ~RequiredArgumentMissing

----------------------------------------------------------------------------
(* Properties of fetch_github_template *)

\* the response is a file object whose content decodes
ResponseDecodes(resp) ==
    /\ resp.kind = "json"
    /\ resp.data.type = "dict"
    /\ "content" \in DOMAIN resp.data.v
    /\ resp.data.v["content"].type = "str"
    /\ \A i \in DOMAIN resp.data.v["content"].v :
          /\ resp.data.v["content"].v[i].k # "badpad"
          /\ resp.data.v["content"].v[i] # InvalidUtf8

\* the fetch of this call can succeed
FetchCanSucceed == fetch.call.path.type = "str" /\ ResponseDecodes(fetch.resp)

\* C15: fetch_github_template either returns the decoded text, and then the
\* response was a file whose content decodes, or raises an exception that
\* is a ValueError; whenever the fetch fails (directory, no content field,
\* transport error, decoding error, anything else) it raises and returns
\* nothing.
C15_FetchReturnsTextOrValueError ==
    fetch.called =>
        \/ /\ fetch.out.ended = "returned"
           /\ FetchCanSucceed
           /\ \A i \in DOMAIN fetch.out.value :
                 /\ fetch.out.value[i] # ""
                 /\ \E j \in DOMAIN fetch.resp.data.v["content"].v :
                       fetch.resp.data.v["content"].v[j] = B64(fetch.out.value[i])
        \/ /\ fetch.out.ended = "raised"
           /\ ~FetchCanSucceed
           /\ IsInstance(fetch.out.exc, "ValueError")

\* C15 witness: a response that is not a JSON object made the body raise
\* TypeError and the caller received ValueError
C15_Witness ==
    /\ fetch.called
    /\ fetch.resp.kind = "json"
    /\ fetch.resp.data.type = "NoneType"
    /\ fetch.call.path.type = "str"
    /\ fetch.out.ended = "raised"
    /\ fetch.out.exc.type = "ValueError"
    /\ Contains(fetch.out.exc.msg, <<"argument is not iterable">>)

----------------------------------------------------------------------------
(* Properties of the rendered and of the stored documents *)

\* the headings of the four sections that follow the README text
SectionHeadings ==
    { "## Best Practices", "## Recommended VS Code Extensions",
      "## Documentation Sources", "## GitHub Copilot Instructions" }

\* the headings found in a rendered text
HeadingsIn(text) == { text[i] : i \in DOMAIN text } \cap SectionHeadings

\* C16 as stated: the Markdown that gemini_generator.main renders and
\* writes at the end of a run holds a heading for each of the four sections
\* that follow the README text (best practices, suggested tooling,
\* documentation sources, assistant instructions), even when the section
\* is empty.
C16_FourSectionHeadings ==
    ( /\ pc = "exit" /\ prog = "gemini_generator" /\ WellFormedArgs
      /\ exitCode = 0
      /\ Args.markdown_output \in DOMAIN files )
    => HeadingsIn(files[Args.markdown_output]) = SectionHeadings

\* the headings of the three list sections
ListSectionHeadings == SectionHeadings \ {"## GitHub Copilot Instructions"}

\* C16 amended: the rendered Markdown always holds the headings of the
\* three list sections (best practices, extensions, documentation sources),
\* empty or not, and holds the assistant-instructions heading exactly when
\* the document it is rendered from has non-empty instructions.
C16_ListHeadingsAlways ==
    ( /\ pc = "exit" /\ prog = "gemini_generator" /\ WellFormedArgs
      /\ exitCode = 0
      /\ Args.markdown_output \in DOMAIN files )
    => /\ ListSectionHeadings \subseteq HeadingsIn(files[Args.markdown_output])
       /\ ("## GitHub Copilot Instructions" \in HeadingsIn(files[Args.markdown_output]))
            <=> TruthyVal(Get(JsonForMd(result), "copilot_instructions", PyNone))

\* C16 witness: a document with empty lists and no instructions was
\* rendered and written with the three list headings
C16_Witness ==
    /\ pc = "exit" /\ prog = "gemini_generator" /\ WellFormedArgs
    /\ exitCode = 0
    /\ Args.markdown_output \in DOMAIN files
    /\ Get(JsonForMd(result), "best_practices", List(<< >>)).v = << >>
    /\ HeadingsIn(files[Args.markdown_output]) = ListSectionHeadings

\* the seven fields of the generated document
DocumentFields ==
    { "readme_content", "best_practices", "suggested_extensions",
      "documentation_source", "copilot_instructions", "project_type",
      "programming_language" }

\* the field names a stored JSON document holds, at its top level or
\* inside the JSON text kept under "main"
FieldsOfJson(doc) ==
    DOMAIN doc \cup ( IF "main" \in DOMAIN doc /\ JsonLoadsOk(doc["main"])
                      THEN DOMAIN JsonLoads(doc["main"])
                      ELSE {} )

\* C17 as stated: every JSON output file gemini_generator.main leaves,
\* after a success, after a generation failure or from its top-level
\* handler, holds all seven document fields (counted at the top level or
\* inside the "main" text).
C17_JsonHoldsSevenFields ==
    ( /\ pc = "exit" /\ prog = "gemini_generator" /\ ParseOk
      /\ Args.json_output \in DOMAIN files )
    => DocumentFields \subseteq FieldsOfJson(files[Args.json_output])

----------------------------------------------------------------------------
(* Properties of file writing *)

\* nothing in the file system stands in the way of creating the parent
\* directories of path p
ParentsCreatable(p) ==
    Ancestors(Abspath(Dirname(p))) \cap fsenv.blocked = {}

\* C18 as stated: every write of OutputFileWriter to a named target whose
\* parent directories can be created succeeds, whether the parent exists
\* already or not and also for a bare file name with no output directory;
\* afterwards the parent directory exists and the file is at the target.
C18_WriteCreatesParents ==
    prog = "main" =>
        \A i \in DOMAIN writes :
            (Len(writes[i].path) > 0 /\ ParentsCreatable(writes[i].path))
            => /\ writes[i].ok
               /\ writes[i].path \in DOMAIN files
               /\ Abspath(Dirname(writes[i].path)) \in dirs

\* the log file: main.py opens gemini_generator.log in the working
\* directory when the module is loaded, gemini_generator.py logs to the
\* console only
LogFiles == IF prog = "main" THEN {<<"gemini_generator.log">>} ELSE {}

\* every file of the run: the output documents and the log file
FilesWritten == DOMAIN files \cup LogFiles

\* path p is a file directly inside directory d
Inside(p, d) ==
    /\ Len(Abspath(p)) = Len(Abspath(d)) + 1
    /\ SubSeq(Abspath(p), 1, Len(Abspath(d))) = Abspath(d)

----------------------------------------------------------------------------
(* Properties of the sampling configuration *)

\* a configuration within the limits that hold for every model:
\* temperature not negative, top_p between 0 and 1 (in hundredths),
\* top_k and max_output_tokens positive
WithinAbsoluteLimits(cfg) ==
    /\ cfg.temperature >= 0
    /\ cfg.top_p >= 0 /\ cfg.top_p <= 100
    /\ cfg.top_k > 0
    /\ cfg.max_output_tokens > 0

\* C20 as stated: every sampling configuration submitted with a request is
\* clamped: temperature is not negative, top_p lies in [0, 1], top_k and
\* max_output_tokens are positive, whatever values the user supplied.
C20_SubmittedConfigClamped ==
    \A i \in DOMAIN submitted : WithinAbsoluteLimits(submitted[i])

\* the configuration a run works with, before it is handed to the agent
EffectiveConfig ==
    IF prog = "gemini_generator" THEN TokenConfig ELSE MainContentTokenConfig

\* the documented defaults: 0.2, 0.95 (in hundredths), 40 and 16384
DocumentedDefaults ==
    [ temperature |-> 20, top_p |-> 95, top_k |-> 40, max_output_tokens |-> 16384 ]

\* the value parameter k is to have: the flag when given, else the default
ExpectedSampling(k) ==
    IF k \in DOMAIN argv THEN argv[k] ELSE DocumentedDefaults[k]

\* C21: each of temperature, top_p, top_k and max_output_tokens in the
\* effective sampling configuration, and in every configuration sent with
\* a request, equals the command-line value when the flag is given (0
\* included) and the default otherwise; a flag leaves the other parameters
\* alone, and candidate_count is 1.
C21_SamplingFromFlagsOrDefaults ==
    ParseOk =>
        /\ \A k \in SamplingFlags : EffectiveConfig[k] = ExpectedSampling(k)
        /\ EffectiveConfig.candidate_count = 1
        /\ \A i \in DOMAIN submitted :
              \A k \in SamplingFlags : submitted[i][k] = ExpectedSampling(k)

\* C21 witness: main.py was run with --temperature 0 alone and sent a
\* request with temperature 0 and the other three at their defaults
C21_Witness ==
    /\ prog = "main" /\ ParseOk /\ pc = "exit"
    /\ SamplingFlags \cap DOMAIN argv = {"temperature"}
    /\ argv["temperature"] = 0
    /\ Len(submitted) = 1
    /\ submitted[1].temperature = 0
    /\ submitted[1].top_p = 95 /\ submitted[1].top_k = 40
    /\ submitted[1].max_output_tokens = 16384

----------------------------------------------------------------------------
(* Properties of generate_content on incomplete results *)

\* the value has the type the field is declared with
DeclaredType(f, val) ==
    IF f \in ListFields THEN val.type = "list" ELSE val.type = "str"

\* C22 as stated: for a provider result in which any subset of the output
\* fields is missing or None, generate_content returns without an error,
\* its main content holds the five content fields, each with its declared
\* type (readme_content and copilot_instructions strings, the other three
\* lists), and project_type and programming_language fall back to
\* 'Unknown'.
C22_MissingFieldsKeepTypes ==
    pc = "gen_done" =>
        /\ builder = "returned"
        /\ "error" \notin DOMAIN result
        /\ MainContentFields \subseteq DOMAIN JsonLoads(result["main"])
        /\ \A f \in MainContentFields : DeclaredType(f, JsonLoads(result["main"])[f])
        /\ \A f \in {"project_type", "programming_language"} :
              (f \notin DOMAIN agentRun.output \/ agentRun.output[f].type = "NoneType")
              => result[f] = Str(<<"Unknown">>)

\* the same run with a result that carries no candidate
WithoutMeta(run) == [run EXCEPT !.meta = NoMeta]

\* C23: grounding metadata never turns a successful generation into a
\* failure: whatever the metadata of the result is (absent, None, not
\* iterable, chunks without web or uri, raising when read), generate_content
\* returns a result without an error, and its five content fields,
\* project_type and programming_language are what they are for the same
\* output with no metadata at all.
C23_MetadataNeverFails ==
    pc = "gen_done" =>
        /\ builder = "returned"
        /\ "error" \notin DOMAIN result
        /\ LET plain == GenerateContent(WithoutMeta(agentRun)).value
           IN  /\ \A f \in MainContentFields :
                     JsonLoads(result["main"])[f] = JsonLoads(plain["main"])[f]
               /\ result["project_type"] = plain["project_type"]
               /\ result["programming_language"] = plain["programming_language"]

\* C23 witness: reading the candidate of the result raised, and
\* generate_content returned the whole sample output, without an error
C23_Witness ==
    /\ pc = "gen_done"
    /\ agentRun.meta.kind = "access_raises"
    /\ DOMAIN agentRun.output = DOMAIN SampleOutput
    /\ \A f \in DOMAIN SampleOutput : agentRun.output[f].type # "NoneType"
    /\ builder = "returned"
    /\ "error" \notin DOMAIN result
    /\ JsonLoads(result["main"])["readme_content"] = SampleOutput["readme_content"]

----------------------------------------------------------------------------
(* Properties of the run as a whole *)

\* the runs with a complete command line and a file system that lets
\* everything through
InitLive ==
    /\ Init
    /\ WellFormedArgs
    /\ fsenv = FsOk
    /\ SamplingFlags \cap DOMAIN argv = {}

\* these runs when every external call eventually returns or raises: the
\* interpreter always takes the next step of a run that has one
SpecLive == InitLive /\ [][Next]_vars /\ WF_vars(Next)

\* the run has left the success path: a step of the request builder
\* failed, or an exception is on its way to a top-level handler
TookErrorEdge == genFailed \/ exc # NoExc

\* the run is over, with a non-zero status and an error document
EndedThroughReport ==
    pc = "exit" /\ exitCode # 0 /\ ParseOk /\ SomeOutputHoldsError

\* C24 as stated: given that every external call returns or raises, every
\* run reaches its end, and a run that took the error edge ends through
\* the error report, with an error document and a non-zero exit status.
C24_TerminatesThroughReport ==
    /\ <>(pc = "exit")
    /\ TookErrorEdge ~> EndedThroughReport

----------------------------------------------------------------------------
(* Properties of search grounding *)

\* C25 as stated: a search tool goes out with a request of
\* gemini_generator only if search grounding is enabled and the resolved
\* (working) model, not merely the requested one, is a Gemini 2.x model.
C25_SearchToolOnlyForResolved2x ==
    prog = "gemini_generator" =>
        \A i \in DOMAIN submitted :
            (submitted[i].agent_tools \/ submitted[i].run_tools)
            => (EnableSearchGrounding /\ Has2Dot(submitted[i].working))

----------------------------------------------------------------------------
(* Properties of ProjectPrompt *)

\* the document the failed constructor leaves in the instance
IsErrorDocument(doc) ==
    /\ "readme_content" \in DOMAIN doc
    /\ Contains(doc["readme_content"].v, <<"ProjectPrompt initialization failed: ">>)
    /\ doc["project_type"] = Str(<<"Error">>)

----------------------------------------------------------------------------
(* Properties of model probing over a whole run *)

\* C27 as stated: over one run of gemini_generator.main the number of
\* probe calls never exceeds one for the requested identifier plus one for
\* each entry of the static fallback list, also when every probe fails.
C27_ProbesBoundedPerRun ==
    prog = "gemini_generator" => Len(probes) <= 1 + Len(candidate_models)

----------------------------------------------------------------------------
(* Properties of the placeholder settings *)

----------------------------------------------------------------------------
(* Properties of the connectivity test and of the template path *)

\* the 'Failed to establish connection with Gemini API' branch has written
\* its error document
ConnectionErrorWritten ==
    /\ Args.json_output \in DOMAIN files
    /\ "error_message" \in DOMAIN files[Args.json_output]
    /\ files[Args.json_output]["error_message"] = Str(ConnectionErrorMsg)

\* C29: configure_gemini_api returns True for every non-empty API key,
\* whether or not a probe succeeded, because model resolution never raises;
\* so the connection-failure branch of gemini_generator.main, which writes
\* an error document and exits 1, is never taken, and a run whose probes
\* all failed goes on to create the agent for the generation request.
C29_ConfigureAlwaysTrue ==
    (prog = "gemini_generator" /\ ParseOk) =>
        /\ (gam.caller = "configure" /\ gam.done) =>
               (~gam.raised /\ ConfigureResult(gam))
        /\ ~ConnectionErrorWritten
        /\ (gamCalls >= 1 /\ pc = "exit" /\ exitCode = 1) => gamCalls = 2

\* C29 witness: a run with a non-empty key in which every probe of the
\* connectivity test and of the agent's model resolution failed, and which
\* still issued the generation request, where the failure was noticed.
C29_Witness ==
    /\ prog = "gemini_generator"
    /\ ApiKey = "INVALID_KEY_FOR_TESTING"
    /\ gamCalls = 2
    /\ Len(probes) > Len(candidate_models)
    /\ AllProbesFailed
    /\ requests = 1
    /\ genFailed

\* the template path has been entered: the template was fetched, or the
\* run ended on the missing repository or path
TemplatePathEntered ==
    \/ fetch.called
    \/ \E i \in DOMAIN stdout : stdout[i] = MissingTemplateJson
    \/ "template_analysis" \in DOMAIN result

\* C30: in gemini_generator.main use_existing_template is false for every
\* command line, because the input dictionary has no such key; the template
\* is never fetched and the template path is never entered, and a run that
\* passes the connectivity test goes on to generate_content with the
\* --gemini_model of the command line.
C30_TemplatePathNeverEntered ==
    (prog = "gemini_generator" /\ ParseOk) =>
        /\ "use_existing_template" \notin DOMAIN InputData
        /\ ~UseExistingTemplate
        /\ ~TemplatePathEntered
        /\ gamCalls = 2 =>
               (gam.caller = "agent" /\ gam.requested = MainGeminiModel)
        /\ \A i \in DOMAIN submitted : submitted[i].requested = MainGeminiModel

\* C30 witness: a run asked to create placeholders has passed the
\* connectivity test and has returned from generate_content, without any
\* template having been fetched.
C30_Witness ==
    /\ prog = "gemini_generator"
    /\ "create_with_placeholders" \in DOMAIN argv
    /\ CreateWithPlaceholders
    /\ pc = "exit"
    /\ exitCode = 0
    /\ builder = "returned"
    /\ requests = 1
    /\ ~fetch.called

====
